---- MODULE Spec2Model ----
(***************************************************************************)
(* meatcheck: the unified-diff parser (internal/app/diff.go) and the       *)
(* review session state machine (internal/app/app.go, view.go).            *)
(*                                                                         *)
(* Go strings are modelled as sequences of one-character strings, so that  *)
(* prefix tests, trimming, splitting and the hunk-header pattern are       *)
(* computed character by character as the code computes them.              *)
(***************************************************************************)
EXTENDS Integers, Sequences, FiniteSets, TLC

(***************************************************************************)
(* Bounds of the model.                                                    *)
(***************************************************************************)
\* longest diff text, in lines, built from the line alphabet DiffLines
MaxInputLines == 3

(***************************************************************************)
(* package strings / strconv, as far as the code uses them.                *)
(***************************************************************************)
Digits == {"0", "1", "2", "3", "4", "5", "6", "7", "8", "9"}

\* unicode.IsSpace restricted to the characters of the model's alphabet
Spaces == {" ", "\t", "\n", "\r"}

HasPrefix(s, p) == Len(s) >= Len(p) /\ SubSeq(s, 1, Len(p)) = p

TrimPrefix(s, p) == IF HasPrefix(s, p) THEN SubSeq(s, Len(p) + 1, Len(s)) ELSE s

RECURSIVE TrimLeft(_)
TrimLeft(s) ==
    IF s # <<>> /\ Head(s) \in Spaces THEN TrimLeft(Tail(s)) ELSE s

RECURSIVE TrimRight(_)
TrimRight(s) ==
    IF s # <<>> /\ s[Len(s)] \in Spaces THEN TrimRight(SubSeq(s, 1, Len(s) - 1)) ELSE s

TrimSpace(s) == TrimRight(TrimLeft(s))

\* strings.ReplaceAll(s, "\r\n", "\n"): every "\r" that a "\n" follows is
\* dropped
ReplaceCRLF(s) ==
    LET marked == [i \in 1..Len(s) |->
                     <<s[i], ~(s[i] = "\r" /\ i < Len(s) /\ s[i + 1] = "\n")>>]
        kept == SelectSeq(marked, LAMBDA p : p[2])
    IN  [i \in 1..Len(kept) |-> kept[i][1]]

\* a splitter that drops the empty segment after a final newline
SplitDropsFinalEmpty(s) ==
    LET nl == SelectSeq([i \in 1..Len(s) |-> i], LAMBDA i : s[i] = "\n")
        cut == <<0>> \o nl \o <<Len(s) + 1>>
        n == IF s # <<>> /\ s[Len(s)] = "\n" THEN Len(nl) ELSE Len(nl) + 1
    IN  [k \in 1..n |-> SubSeq(s, cut[k] + 1, cut[k + 1] - 1)]

\* strings.Split(s, "\n"): the segments between the newlines, always at least
\* one; a final "\n" yields a final empty segment
Split(s) ==
    LET nl == SelectSeq([i \in 1..Len(s) |-> i], LAMBDA i : s[i] = "\n")
        cut == <<0>> \o nl \o <<Len(s) + 1>>
    IN  [k \in 1..(Len(nl) + 1) |-> SubSeq(s, cut[k] + 1, cut[k + 1] - 1)]

DigitValue(c) ==
    CASE c = "0" -> 0 [] c = "1" -> 1 [] c = "2" -> 2 [] c = "3" -> 3
      [] c = "4" -> 4 [] c = "5" -> 5 [] c = "6" -> 6 [] c = "7" -> 7
      [] c = "8" -> 8 [] c = "9" -> 9

\* the largest int of the 32-bit build (math.MaxInt32), the widest int the
\* model computes with; the 64-bit build wraps alike at math.MaxInt64
MaxInt == 2147483647

\* the value of a string of decimal digits, or -1 when it is larger than the
\* largest int
RECURSIVE AtoiAcc(_, _)
AtoiAcc(s, acc) ==
    IF s = <<>> THEN acc
    ELSE IF acc > (MaxInt - DigitValue(Head(s))) \div 10 THEN -1
    ELSE AtoiAcc(Tail(s), acc * 10 + DigitValue(Head(s)))

\* strconv.Atoi with the error ignored: an optional sign and decimal digits
\* give the number, or the largest (smallest) int when the number does not
\* fit, as Atoi returns it with its range error; any other string gives 0
mustAtoi(s) ==
    LET signed == s # <<>> /\ s[1] \in {"+", "-"}
        digits == IF signed THEN Tail(s) ELSE s
    IN  IF digits # <<>> /\ \A i \in 1..Len(digits) : digits[i] \in Digits
        THEN IF signed /\ s[1] = "-"
             THEN IF AtoiAcc(digits, 0) = -1 THEN -MaxInt - 1 ELSE -AtoiAcc(digits, 0)
             ELSE IF AtoiAcc(digits, 0) = -1 THEN MaxInt ELSE AtoiAcc(digits, 0)
        ELSE 0

parseOptionalCount(s) == IF s = <<>> THEN 1 ELSE mustAtoi(s)

(***************************************************************************)
(* hunkHeaderRE = ^@@ -(\d+)(?:,(\d+))? \+(\d+)(?:,(\d+))? @@              *)
(***************************************************************************)
\* length of the run of digits of s that starts at position i
RECURSIVE DigitRun(_, _)
DigitRun(s, i) ==
    IF i <= Len(s) /\ s[i] \in Digits THEN 1 + DigitRun(s, i + 1) ELSE 0

HasAt(s, i, p) == i + Len(p) - 1 <= Len(s) /\ SubSeq(s, i, i + Len(p) - 1) = p

NoMatch == [ok |-> FALSE, m1 |-> <<>>, m2 |-> <<>>, m3 |-> <<>>, m4 |-> <<>>]

\* the optional group (?:,(\d+))? at position i: its digits and the position
\* after it
OptCount(s, i) ==
    IF HasAt(s, i, <<",">>) /\ DigitRun(s, i + 1) > 0
    THEN [digits |-> SubSeq(s, i + 1, i + DigitRun(s, i + 1)),
          next   |-> i + 1 + DigitRun(s, i + 1)]
    ELSE [digits |-> <<>>, next |-> i]

hunkHeaderRE(raw) ==
    IF ~HasPrefix(raw, <<"@", "@", " ", "-">>) \/ DigitRun(raw, 5) = 0 THEN NoMatch
    ELSE
      LET n1 == DigitRun(raw, 5)
          c1 == OptCount(raw, 5 + n1)
      IN  IF ~HasAt(raw, c1.next, <<" ", "+">>) \/ DigitRun(raw, c1.next + 2) = 0
          THEN NoMatch
          ELSE
            LET i3 == c1.next + 2
                n3 == DigitRun(raw, i3)
                c3 == OptCount(raw, i3 + n3)
            IN  IF ~HasAt(raw, c3.next, <<" ", "@", "@">>) THEN NoMatch
                ELSE [ok |-> TRUE,
                      m1 |-> SubSeq(raw, 5, 4 + n1),
                      m2 |-> c1.digits,
                      m3 |-> SubSeq(raw, i3, i3 + n3 - 1),
                      m4 |-> c3.digits]

(***************************************************************************)
(* Paths of a diff.                                                        *)
(***************************************************************************)
DevNull == <<"/", "d", "e", "v", "/", "n", "u", "l", "l">>

\* filepath.ToSlash is the identity where the separator is "/"
normalizeDiffPath(path) ==
    IF path = DevNull THEN <<>>
    ELSE LET p == IF HasPrefix(path, <<"a", "/">>) \/ HasPrefix(path, <<"b", "/">>)
                  THEN SubSeq(path, 3, Len(path)) ELSE path
         IN  TrimPrefix(p, <<".", "/">>)

pickDiffPath(oldPath, newPath) == IF newPath # <<>> THEN newPath ELSE oldPath

(***************************************************************************)
(* parseUnifiedDiff.  The loop state is a record:                          *)
(*   files    the DiffFiles flushed so far                                 *)
(*   hasFile  curFile # nil          curFile  the DiffFile being built     *)
(*   hasHunk  curHunk # nil (curHunk is then the last hunk of curFile)     *)
(*   oldLine, newLine  the two cursors                                     *)
(*   err      an invalid hunk header was met: the call returns nil, error  *)
(***************************************************************************)
DiffContext == "context"
DiffAdd == "add"
DiffDel == "del"

EmptyDiffFile == [OldPath |-> <<>>, NewPath |-> <<>>, Path |-> <<>>, Hunks |-> <<>>]

ParseStart ==
    [files |-> <<>>, hasFile |-> FALSE, curFile |-> EmptyDiffFile,
     hasHunk |-> FALSE, oldLine |-> 0, newLine |-> 0, err |-> FALSE]

flushFile(st) ==
    IF ~st.hasFile THEN st
    ELSE [st EXCEPT !.files = Append(st.files, st.curFile),
                    !.hasFile = FALSE, !.curFile = EmptyDiffFile,
                    !.hasHunk = FALSE]

\* if curFile == nil { curFile = &DiffFile{} }
ensureFile(st) == IF st.hasFile THEN st ELSE [st EXCEPT !.hasFile = TRUE, !.curFile = EmptyDiffFile]

\* curHunk.Lines = append(curHunk.Lines, DiffLine{...})
appendLine(st, dl) ==
    LET n == Len(st.curFile.Hunks)
    IN  [st EXCEPT !.curFile.Hunks[n].Lines = Append(@, dl)]

\* a hunk header that starts the two cursors from the wrong sides
hunkHeaderWrongCursor(st, raw) ==
    LET s == ensureFile(st)
        m == hunkHeaderRE(raw)
    IN  IF ~m.ok THEN [s EXCEPT !.err = TRUE]
        ELSE LET h == [OldStart |-> mustAtoi(m.m1), OldCount |-> parseOptionalCount(m.m2),
                       NewStart |-> mustAtoi(m.m3), NewCount |-> parseOptionalCount(m.m4),
                       Lines |-> <<>>]
             IN  [s EXCEPT !.curFile.Hunks = Append(@, h), !.hasHunk = TRUE,
                           !.oldLine = h.NewStart, !.newLine = h.OldStart]

\* diff.go 82-100: a line that starts with "@@ "
hunkHeader(st, raw) ==
    LET s == ensureFile(st)
        m == hunkHeaderRE(raw)
    IN  IF ~m.ok THEN [s EXCEPT !.err = TRUE]
        ELSE LET h == [OldStart |-> mustAtoi(m.m1), OldCount |-> parseOptionalCount(m.m2),
                       NewStart |-> mustAtoi(m.m3), NewCount |-> parseOptionalCount(m.m4),
                       Lines |-> <<>>]
             IN  [s EXCEPT !.curFile.Hunks = Append(@, h), !.hasHunk = TRUE,
                           !.oldLine = h.OldStart, !.newLine = h.NewStart]

NoNewlineMarker ==
    <<"\\", " ", "N", "o", " ", "n", "e", "w", "l", "i", "n", "e", " ", "a", "t",
      " ", "e", "n", "d", " ", "o", "f", " ", "f", "i", "l", "e">>

\* a hunk line where an added line advances the old cursor as well
hunkLineAddAdvancesOld(st, raw) ==
    IF raw = <<>> THEN
        [appendLine(st, [Kind |-> DiffContext, OldLine |-> st.oldLine,
                         NewLine |-> st.newLine, Text |-> <<>>])
            EXCEPT !.oldLine = @ + 1, !.newLine = @ + 1]
    ELSE
      LET prefix == raw[1]
          text == Tail(raw)
      IN  CASE prefix = " " ->
                 [appendLine(st, [Kind |-> DiffContext, OldLine |-> st.oldLine,
                                  NewLine |-> st.newLine, Text |-> text])
                     EXCEPT !.oldLine = @ + 1, !.newLine = @ + 1]
            [] prefix = "+" ->
                 [appendLine(st, [Kind |-> DiffAdd, OldLine |-> 0,
                                  NewLine |-> st.newLine, Text |-> text])
                     EXCEPT !.oldLine = @ + 1, !.newLine = @ + 1]
            [] prefix = "-" ->
                 [appendLine(st, [Kind |-> DiffDel, OldLine |-> st.oldLine,
                                  NewLine |-> 0, Text |-> text])
                     EXCEPT !.oldLine = @ + 1]
            [] OTHER ->
                 [appendLine(st, [Kind |-> DiffContext, OldLine |-> st.oldLine,
                                  NewLine |-> st.newLine, Text |-> raw])
                     EXCEPT !.oldLine = @ + 1, !.newLine = @ + 1]

\* diff.go 107-133: a line inside an open hunk
hunkLine(st, raw) ==
    IF raw = <<>> THEN
        [appendLine(st, [Kind |-> DiffContext, OldLine |-> st.oldLine,
                         NewLine |-> st.newLine, Text |-> <<>>])
            EXCEPT !.oldLine = @ + 1, !.newLine = @ + 1]
    ELSE
      LET prefix == raw[1]
          text == Tail(raw)
      IN  CASE prefix = " " ->
                 [appendLine(st, [Kind |-> DiffContext, OldLine |-> st.oldLine,
                                  NewLine |-> st.newLine, Text |-> text])
                     EXCEPT !.oldLine = @ + 1, !.newLine = @ + 1]
            [] prefix = "+" ->
                 [appendLine(st, [Kind |-> DiffAdd, OldLine |-> 0,
                                  NewLine |-> st.newLine, Text |-> text])
                     EXCEPT !.newLine = @ + 1]
            [] prefix = "-" ->
                 [appendLine(st, [Kind |-> DiffDel, OldLine |-> st.oldLine,
                                  NewLine |-> 0, Text |-> text])
                     EXCEPT !.oldLine = @ + 1]
            [] OTHER ->
                 [appendLine(st, [Kind |-> DiffContext, OldLine |-> st.oldLine,
                                  NewLine |-> st.newLine, Text |-> raw])
                     EXCEPT !.oldLine = @ + 1, !.newLine = @ + 1]

\* diff.go 59-134: one iteration of the loop over the lines
parseLine(st, raw) ==
    IF HasPrefix(raw, <<"d", "i", "f", "f", " ", "-", "-", "g", "i", "t", " ">>) THEN
        [flushFile(st) EXCEPT !.hasFile = TRUE, !.curFile = EmptyDiffFile]
    ELSE IF HasPrefix(raw, <<"-", "-", "-", " ">>) THEN
        LET path == TrimSpace(TrimPrefix(raw, <<"-", "-", "-", " ">>))
        IN  [ensureFile(st) EXCEPT !.curFile.OldPath = normalizeDiffPath(path)]
    ELSE IF HasPrefix(raw, <<"+", "+", "+", " ">>) THEN
        LET path == TrimSpace(TrimPrefix(raw, <<"+", "+", "+", " ">>))
            s == [ensureFile(st) EXCEPT !.curFile.NewPath = normalizeDiffPath(path)]
        IN  [s EXCEPT !.curFile.Path = pickDiffPath(s.curFile.OldPath, s.curFile.NewPath)]
    ELSE IF HasPrefix(raw, <<"@", "@", " ">>) THEN hunkHeader(st, raw)
    ELSE IF ~st.hasHunk THEN st
    ELSE IF HasPrefix(raw, NoNewlineMarker) THEN st
    ELSE hunkLine(st, raw)

\* the loop stops at the first invalid hunk header (return nil, err)
RECURSIVE parseLines(_, _, _)
parseLines(st, lines, i) ==
    IF i > Len(lines) \/ st.err THEN st
    ELSE parseLines(parseLine(st, lines[i]), lines, i + 1)

\* a parser that hands back the files flushed before the invalid header
parseUnifiedDiffPartial(text) ==
    LET st == parseLines(ParseStart, Split(ReplaceCRLF(text)), 1)
    IN  IF st.err THEN [files |-> st.files, err |-> TRUE]
        ELSE [files |-> flushFile(st).files, err |-> FALSE]

parseUnifiedDiff(text) ==
    LET st == parseLines(ParseStart, Split(ReplaceCRLF(text)), 1)
    IN  IF st.err THEN [files |-> <<>>, err |-> TRUE]
        ELSE [files |-> flushFile(st).files, err |-> FALSE]

(***************************************************************************)
(* Helpers of the view: formatting, paths, maps.                           *)
(* Rendered markup (chroma, goldmark) comes from outside the program; it   *)
(* is kept as the tagged source text it was made from.                     *)
(***************************************************************************)
DigitChars == <<"0", "1", "2", "3", "4", "5", "6", "7", "8", "9">>

\* fmt %d of a natural number
RECURSIVE Itoa(_)
Itoa(n) == IF n < 10 THEN <<DigitChars[n + 1]>> ELSE Itoa(n \div 10) \o <<DigitChars[(n % 10) + 1]>>

UpperLetters ==
    <<"A", "B", "C", "D", "E", "F", "G", "H", "I", "J", "K", "L", "M", "N", "O", "P", "Q",
      "R", "S", "T", "U", "V", "W", "X", "Y", "Z">>
LowerLetters ==
    <<"a", "b", "c", "d", "e", "f", "g", "h", "i", "j", "k", "l", "m", "n", "o", "p", "q",
      "r", "s", "t", "u", "v", "w", "x", "y", "z">>

ToLowerChar(c) ==
    IF \E i \in 1..26 : UpperLetters[i] = c
    THEN LowerLetters[CHOOSE i \in 1..26 : UpperLetters[i] = c] ELSE c

ToLower(s) == [i \in 1..Len(s) |-> ToLowerChar(s[i])]

\* filepath.Ext: the suffix from the last "." of the last path element
RECURSIVE ExtFrom(_, _)
ExtFrom(path, i) ==
    IF i < 1 \/ path[i] = "/" THEN <<>>
    ELSE IF path[i] = "." THEN SubSeq(path, i, Len(path))
    ELSE ExtFrom(path, i - 1)

Ext(path) == ExtFrom(path, Len(path))

isMarkdownPath(path) ==
    LET ext == ToLower(Ext(path))
    IN  ext = <<".", "m", "d">> \/ ext = <<".", "m", "a", "r", "k", "d", "o", "w", "n">>

\* a Go map read with the zero value for a missing key, and a map write
MapGet(m, k, zero) == IF k \in DOMAIN m THEN m[k] ELSE zero
MapPut(m, k, v) == [x \in (DOMAIN m) \cup {k} |-> IF x = k THEN v ELSE m[x]]
EmptyMap == [x \in {} |-> FALSE]

renderMarkdown(text) == <<"markdown", text>>
RenderLines(lines) == [i \in 1..Len(lines) |-> <<"chroma", lines[i]>>]
NoHTML == <<>>

RECURSIVE JoinStrings(_, _)
JoinStrings(parts, sep) ==
    IF parts = <<>> THEN <<>>
    ELSE IF Len(parts) = 1 THEN Head(parts)
    ELSE Head(parts) \o sep \o JoinStrings(Tail(parts), sep)

(***************************************************************************)
(* view.go: ranges and the projection of the model onto its view.          *)
(***************************************************************************)
RangeLess(a, b) == IF a.Start = b.Start THEN a.End < b.End ELSE a.Start < b.Start

\* sort.Slice with RangeLess: ranges that compare equal are identical, so the
\* sorted list is unique
RECURSIVE InsertRange(_, _)
InsertRange(sorted, r) ==
    IF sorted = <<>> THEN <<r>>
    ELSE IF RangeLess(r, Head(sorted)) THEN <<r>> \o sorted
    ELSE <<Head(sorted)>> \o InsertRange(Tail(sorted), r)

RECURSIVE SortRanges(_)
SortRanges(rs) == IF rs = <<>> THEN <<>> ELSE InsertRange(SortRanges(Tail(rs)), Head(rs))

\* a cleaning that drops a range given with its bounds the wrong way round
RECURSIVE CleanRangesDropsInverted(_)
CleanRangesDropsInverted(rs) ==
    IF rs = <<>> THEN <<>>
    ELSE LET r == Head(rs)
         IN  IF r.Start <= 0 \/ r.End <= 0 \/ r.End < r.Start
             THEN CleanRangesDropsInverted(Tail(rs))
             ELSE <<r>> \o CleanRangesDropsInverted(Tail(rs))

RECURSIVE CleanRanges(_)
CleanRanges(rs) ==
    IF rs = <<>> THEN <<>>
    ELSE LET r == Head(rs)
         IN  IF r.Start <= 0 \/ r.End <= 0 THEN CleanRanges(Tail(rs))
             ELSE IF r.End < r.Start
                  THEN <<[Start |-> r.End, End |-> r.Start]>> \o CleanRanges(Tail(rs))
                  ELSE <<r>> \o CleanRanges(Tail(rs))

\* n + 1 in int arithmetic, which wraps around
IncInt(n) == IF n = MaxInt THEN -MaxInt - 1 ELSE n + 1

\* a merge that also joins ranges with one uncovered line between them
RECURSIVE MergeRangesOverGap(_, _)
MergeRangesOverGap(merged, rest) ==
    IF rest = <<>> THEN merged
    ELSE LET r == Head(rest)
             n == Len(merged)
             last == merged[n]
         IN  IF r.Start <= IncInt(IncInt(last.End))
             THEN MergeRangesOverGap(IF r.End > last.End
                                     THEN [merged EXCEPT ![n].End = r.End] ELSE merged,
                                     Tail(rest))
             ELSE MergeRangesOverGap(Append(merged, r), Tail(rest))

RECURSIVE MergeRanges(_, _)
MergeRanges(merged, rest) ==
    IF rest = <<>> THEN merged
    ELSE LET r == Head(rest)
             n == Len(merged)
             last == merged[n]
         IN  IF r.Start <= IncInt(last.End)
             THEN MergeRanges(IF r.End > last.End
                              THEN [merged EXCEPT ![n].End = r.End] ELSE merged,
                              Tail(rest))
             ELSE MergeRanges(Append(merged, r), Tail(rest))

normalizeRanges(ranges) ==
    LET cleaned == SortRanges(CleanRanges(ranges))
    IN  IF cleaned = <<>> THEN <<>> ELSE MergeRanges(<<Head(cleaned)>>, Tail(cleaned))

formatSelectedLabel(path, ranges) ==
    IF ranges = <<>> THEN path
    ELSE LET norm == normalizeRanges(ranges)
             parts == [i \in 1..Len(norm) |->
                         Itoa(norm[i].Start) \o <<"-">> \o Itoa(norm[i].End)]
         IN  path \o <<" ", "(", "l", "i", "n", "e", "s", " ">>
                  \o JoinStrings(parts, <<",", " ">>) \o <<")">>

\* index of the first file with that path, 0 for nil
findFile(files, path) ==
    IF \E i \in 1..Len(files) : files[i].Path = path
    THEN CHOOSE i \in 1..Len(files) :
           files[i].Path = path /\ \A j \in 1..(i - 1) : files[j].Path # path
    ELSE 0

hasFile(files, path) == \E i \in 1..Len(files) : files[i].Path = path

findDiffFile(files, path) == findFile(files, path)

hasDiffFile(files, path) == findDiffFile(files, path) # 0

\* a line test that looks for the number in every diff file
diffLineExistsAnyFile(files, path, line) ==
    \E i \in 1..Len(files) :
      \E j \in 1..Len(files[i].Hunks) :
        \E k \in 1..Len(files[i].Hunks[j].Lines) :
          LET dl == files[i].Hunks[j].Lines[k]
          IN  dl.NewLine = line /\ dl.Kind # DiffDel

diffLineExists(files, path, line) ==
    LET i == findDiffFile(files, path)
    IN  /\ i # 0
        /\ \E j \in 1..Len(files[i].Hunks) :
             \E k \in 1..Len(files[i].Hunks[j].Lines) :
               LET dl == files[i].Hunks[j].Lines[k]
               IN  dl.NewLine = line /\ dl.Kind # DiffDel

\* an attachment of the comment to every line of its span
RECURSIVE attachedCommentsOnSpan(_, _, _)
attachedCommentsOnSpan(comments, path, lineNum) ==
    IF comments = <<>> THEN <<>>
    ELSE LET c == Head(comments)
             rest == attachedCommentsOnSpan(Tail(comments), path, lineNum)
         IN  IF c.Path = path /\ lineNum >= c.StartLine /\ lineNum <= c.EndLine
             THEN <<[Comment |-> c, Rendered |-> renderMarkdown(c.Text)]>> \o rest
             ELSE rest

RECURSIVE attachedComments(_, _, _)
attachedComments(comments, path, lineNum) ==
    IF comments = <<>> THEN <<>>
    ELSE LET c == Head(comments)
             rest == attachedComments(Tail(comments), path, lineNum)
         IN  IF c.Path = path /\ lineNum = c.StartLine
             THEN <<[Comment |-> c, Rendered |-> renderMarkdown(c.Text)]>> \o rest
             ELSE rest

\* a projection that takes the comments of every path
projectLineCommentsAnyPath(path, lineNum, comments) ==
    [commented |-> \E i \in 1..Len(comments) :
                      /\ lineNum >= comments[i].StartLine
                      /\ lineNum <= comments[i].EndLine,
     lineComments |-> attachedComments(comments, path, lineNum)]

projectLineComments(path, lineNum, comments) ==
    [commented |-> \E i \in 1..Len(comments) :
                      /\ comments[i].Path = path
                      /\ lineNum >= comments[i].StartLine
                      /\ lineNum <= comments[i].EndLine,
     lineComments |-> attachedComments(comments, path, lineNum)]

\* idx is the 1-based position of the line (the code's idx + 1)
buildSingleViewLine(file, comments, start, end, rendered, idx) ==
    LET pc == projectLineComments(file.Path, idx, comments)
    IN  [Number    |-> idx,
         Text      |-> file.Lines[idx],
         HTML      |-> IF Len(rendered) >= idx THEN rendered[idx] ELSE NoHTML,
         Selected  |-> start > 0 /\ end > 0 /\ idx >= start /\ idx <= end,
         Commented |-> pc.commented,
         Comments  |-> pc.lineComments]

buildViewLines(file, comments, start, end, rendered) ==
    [i \in 1..Len(file.Lines) |-> buildSingleViewLine(file, comments, start, end, rendered, i)]

RECURSIVE RangeLines(_, _, _, _, _, _)
RangeLines(file, comments, start, end, rendered, norm) ==
    IF norm = <<>> THEN <<>>
    ELSE LET r == Head(norm)
             lo == IF r.Start < 1 THEN 1 ELSE r.Start
             hi == IF r.End > Len(file.Lines) THEN Len(file.Lines) ELSE r.End
         IN  [k \in 1..(hi - lo + 1) |->
                 buildSingleViewLine(file, comments, start, end, rendered, lo + k - 1)]
             \o RangeLines(file, comments, start, end, rendered, Tail(norm))

buildViewLinesWithRanges(file, comments, start, end, rendered, ranges) ==
    IF ranges = <<>> THEN buildViewLines(file, comments, start, end, rendered)
    ELSE RangeLines(file, comments, start, end, rendered, normalizeRanges(ranges))

\* a diff view that leaves the line at the end of the selection unselected
buildViewDiffHunkOpenEnd(file, h, comments, start, end, render) ==
    LET rendered == IF render THEN RenderLines([i \in 1..Len(h.Lines) |-> h.Lines[i].Text])
                    ELSE <<>>
    IN  [Header |-> <<"@", "@", " ", "-">> \o Itoa(h.OldStart) \o <<",">> \o Itoa(h.OldCount)
                    \o <<" ", "+">> \o Itoa(h.NewStart) \o <<",">> \o Itoa(h.NewCount)
                    \o <<" ", "@", "@">>,
         Lines |-> [i \in 1..Len(h.Lines) |->
            LET dl == h.Lines[i]
                selectable == dl.NewLine > 0 /\ dl.Kind # DiffDel
                pc == IF dl.NewLine > 0
                      THEN projectLineComments(file.Path, dl.NewLine, comments)
                      ELSE [commented |-> FALSE, lineComments |-> <<>>]
            IN  [Kind      |-> dl.Kind,
                 OldLine   |-> dl.OldLine,
                 NewLine   |-> dl.NewLine,
                 Text      |-> dl.Text,
                 HTML      |-> IF Len(rendered) >= i THEN rendered[i] ELSE NoHTML,
                 Selected  |-> /\ selectable /\ start > 0 /\ end > 0
                               /\ dl.NewLine >= start /\ dl.NewLine < end,
                 Commented |-> pc.commented,
                 Comments  |-> pc.lineComments]]]

buildViewDiffHunk(file, h, comments, start, end, render) ==
    LET rendered == IF render THEN RenderLines([i \in 1..Len(h.Lines) |-> h.Lines[i].Text])
                    ELSE <<>>
    IN  [Header |-> <<"@", "@", " ", "-">> \o Itoa(h.OldStart) \o <<",">> \o Itoa(h.OldCount)
                    \o <<" ", "+">> \o Itoa(h.NewStart) \o <<",">> \o Itoa(h.NewCount)
                    \o <<" ", "@", "@">>,
         Lines |-> [i \in 1..Len(h.Lines) |->
            LET dl == h.Lines[i]
                selectable == dl.NewLine > 0 /\ dl.Kind # DiffDel
                pc == IF dl.NewLine > 0
                      THEN projectLineComments(file.Path, dl.NewLine, comments)
                      ELSE [commented |-> FALSE, lineComments |-> <<>>]
            IN  [Kind      |-> dl.Kind,
                 OldLine   |-> dl.OldLine,
                 NewLine   |-> dl.NewLine,
                 Text      |-> dl.Text,
                 HTML      |-> IF Len(rendered) >= i THEN rendered[i] ELSE NoHTML,
                 Selected  |-> /\ selectable /\ start > 0 /\ end > 0
                               /\ dl.NewLine >= start /\ dl.NewLine <= end,
                 Commented |-> pc.commented,
                 Comments  |-> pc.lineComments]]]

buildViewDiff(file, comments, start, end, render) ==
    [Path  |-> file.Path,
     Hunks |-> [j \in 1..Len(file.Hunks) |->
                  buildViewDiffHunk(file, file.Hunks[j], comments, start, end, render)]]

(***************************************************************************)
(* The review model (model.go ReviewModel) as a record.  Tree, CodeViewKey *)
(* and the prompt only feed the HTML template and are left out.            *)
(***************************************************************************)
ModeFile == "file"
ModeDiff == "diff"

ErrTextRequired == "comment text is required"
ErrSelectFirst == "select a line or range first"
NoError == ""

EmptyViewFile ==
    [Path |-> <<>>, Lines |-> <<>>, MarkdownFile |-> FALSE, MarkdownRendered |-> FALSE,
     MarkdownHTML |-> NoHTML]

EmptyViewDiff == [Path |-> <<>>, Hunks |-> <<>>]

\* a view that shows a markdown file new to the session in the mode on screen
updateFileViewScreenDefault(model) ==
    LET i == findFile(model.Files, model.SelectedPath)
        label == formatSelectedLabel(model.SelectedPath,
                                     MapGet(model.Ranges, model.SelectedPath, <<>>))
    IN  IF i = 0
        THEN [model EXCEPT !.ViewFile = [EmptyViewFile EXCEPT !.Path = model.SelectedPath],
                           !.SelectedLabel = label]
        ELSE
          LET file == model.Files[i]
              md == isMarkdownPath(file.Path)
              byPath == IF md /\ file.Path \notin DOMAIN model.MarkdownRenderByPath
                        THEN MapPut(model.MarkdownRenderByPath, file.Path,
                                    model.ViewFile.MarkdownRendered)
                        ELSE model.MarkdownRenderByPath
              mdRendered == md /\ byPath[file.Path]
              rendered == IF model.RenderFile THEN RenderLines(file.Lines) ELSE <<>>
          IN  IF md /\ mdRendered
              THEN [model EXCEPT
                      !.MarkdownRenderByPath = byPath,
                      !.ViewFile = [Path |-> model.SelectedPath, Lines |-> <<>>,
                                    MarkdownFile |-> TRUE, MarkdownRendered |-> TRUE,
                                    MarkdownHTML |->
                                       renderMarkdown(JoinStrings(file.Lines, <<"\n">>))],
                      !.SelectedLabel = label]
              ELSE [model EXCEPT
                      !.MarkdownRenderByPath = byPath,
                      !.ViewFile = [Path |-> model.SelectedPath,
                                    Lines |-> buildViewLinesWithRanges(file, model.Comments,
                                                 model.SelectionStart, model.SelectionEnd,
                                                 rendered,
                                                 MapGet(model.Ranges, file.Path, <<>>)),
                                    MarkdownFile |-> md, MarkdownRendered |-> FALSE,
                                    MarkdownHTML |-> NoHTML],
                      !.SelectedLabel = label]

\* a view that renders again a markdown file shown in code mode
updateFileViewDropsCodeMode(model) ==
    LET i == findFile(model.Files, model.SelectedPath)
        label == formatSelectedLabel(model.SelectedPath,
                                     MapGet(model.Ranges, model.SelectedPath, <<>>))
    IN  IF i = 0
        THEN [model EXCEPT !.ViewFile = [EmptyViewFile EXCEPT !.Path = model.SelectedPath],
                           !.SelectedLabel = label]
        ELSE
          LET file == model.Files[i]
              md == isMarkdownPath(file.Path)
              byPath == IF md /\ file.Path \notin DOMAIN model.MarkdownRenderByPath
                        THEN MapPut(model.MarkdownRenderByPath, file.Path, TRUE)
                        ELSE model.MarkdownRenderByPath
              mdRendered == md /\ (byPath[file.Path] \/ (model.ViewFile.Path = file.Path
                                  /\ model.ViewFile.MarkdownFile
                                  /\ ~model.ViewFile.MarkdownRendered))
              rendered == IF model.RenderFile THEN RenderLines(file.Lines) ELSE <<>>
          IN  IF md /\ mdRendered
              THEN [model EXCEPT
                      !.MarkdownRenderByPath = byPath,
                      !.ViewFile = [Path |-> model.SelectedPath, Lines |-> <<>>,
                                    MarkdownFile |-> TRUE, MarkdownRendered |-> TRUE,
                                    MarkdownHTML |->
                                       renderMarkdown(JoinStrings(file.Lines, <<"\n">>))],
                      !.SelectedLabel = label]
              ELSE [model EXCEPT
                      !.MarkdownRenderByPath = byPath,
                      !.ViewFile = [Path |-> model.SelectedPath,
                                    Lines |-> buildViewLinesWithRanges(file, model.Comments,
                                                 model.SelectionStart, model.SelectionEnd,
                                                 rendered,
                                                 MapGet(model.Ranges, file.Path, <<>>)),
                                    MarkdownFile |-> md, MarkdownRendered |-> FALSE,
                                    MarkdownHTML |-> NoHTML],
                      !.SelectedLabel = label]

updateFileView(model) ==
    LET i == findFile(model.Files, model.SelectedPath)
        label == formatSelectedLabel(model.SelectedPath,
                                     MapGet(model.Ranges, model.SelectedPath, <<>>))
    IN  IF i = 0
        THEN [model EXCEPT !.ViewFile = [EmptyViewFile EXCEPT !.Path = model.SelectedPath],
                           !.SelectedLabel = label]
        ELSE
          LET file == model.Files[i]
              md == isMarkdownPath(file.Path)
              byPath == IF md /\ file.Path \notin DOMAIN model.MarkdownRenderByPath
                        THEN MapPut(model.MarkdownRenderByPath, file.Path, TRUE)
                        ELSE model.MarkdownRenderByPath
              mdRendered == md /\ byPath[file.Path]
              rendered == IF model.RenderFile THEN RenderLines(file.Lines) ELSE <<>>
          IN  IF md /\ mdRendered
              THEN [model EXCEPT
                      !.MarkdownRenderByPath = byPath,
                      !.ViewFile = [Path |-> model.SelectedPath, Lines |-> <<>>,
                                    MarkdownFile |-> TRUE, MarkdownRendered |-> TRUE,
                                    MarkdownHTML |->
                                       renderMarkdown(JoinStrings(file.Lines, <<"\n">>))],
                      !.SelectedLabel = label]
              ELSE [model EXCEPT
                      !.MarkdownRenderByPath = byPath,
                      !.ViewFile = [Path |-> model.SelectedPath,
                                    Lines |-> buildViewLinesWithRanges(file, model.Comments,
                                                 model.SelectionStart, model.SelectionEnd,
                                                 rendered,
                                                 MapGet(model.Ranges, file.Path, <<>>)),
                                    MarkdownFile |-> md, MarkdownRendered |-> FALSE,
                                    MarkdownHTML |-> NoHTML],
                      !.SelectedLabel = label]

updateDiffView(model) ==
    LET i == findDiffFile(model.DiffFiles, model.SelectedPath)
    IN  [model EXCEPT
           !.ViewDiff = IF i # 0
                        THEN buildViewDiff(model.DiffFiles[i], model.Comments,
                                           model.SelectionStart, model.SelectionEnd,
                                           model.RenderFile)
                        ELSE [EmptyViewDiff EXCEPT !.Path = model.SelectedPath],
           !.SelectedLabel = model.SelectedPath]

\* a projection that also empties a selection it finds half set
updateViewEmptiesSelection(model) ==
    IF model.Mode = ModeDiff
    THEN updateDiffView([model EXCEPT !.SelectionEnd = IF model.SelectionStart = 0 THEN 0 ELSE @])
    ELSE updateFileView([model EXCEPT !.SelectionStart = 0, !.SelectionEnd = 0])

updateView(model) ==
    IF model.Mode = ModeDiff THEN updateDiffView(model) ELSE updateFileView(model)

\* io_helpers.go loadFiles: data[i] is the content read for paths[i]
loadFiles(paths, data) ==
    [i \in 1..Len(paths) |->
        [Path |-> paths[i], PathSlash |-> paths[i], Lines |-> Split(ReplaceCRLF(data[i]))]]

(***************************************************************************)
(* io_helpers.go ParseRangeFlag: the --range values, "path:start-end".     *)
(***************************************************************************)
\* the index of the first c in s, 0 when there is none
IndexOf(s, c) ==
    IF \E i \in 1..Len(s) : s[i] = c
    THEN CHOOSE i \in 1..Len(s) : s[i] = c /\ \A j \in 1..(i - 1) : s[j] # c
    ELSE 0

\* strings.SplitN(s, c, 2)
SplitN2(s, c) ==
    IF IndexOf(s, c) = 0 THEN <<s>>
    ELSE <<SubSeq(s, 1, IndexOf(s, c) - 1), SubSeq(s, IndexOf(s, c) + 1, Len(s))>>

\* a value that keeps inverted endpoints as they are written
rangeOfValueNoSwap(value) ==
    LET val == TrimSpace(value)
        parts == SplitN2(val, ":")
        seg == SplitN2(parts[2], "-")
        start == mustAtoi(seg[1])
        end == mustAtoi(seg[2])
    IN  IF val = <<>> THEN [kind |-> "skip"]
        ELSE IF Len(parts) # 2 THEN [kind |-> "invalid"]
        ELSE IF Len(seg) # 2 THEN [kind |-> "invalid"]
        ELSE IF start = 0 \/ end = 0 THEN [kind |-> "invalid"]
        ELSE [kind |-> "range", path |-> parts[1],
              range |-> [Start |-> start, End |-> end]]

\* io_helpers.go 60-83: one pass of the loop over the values
rangeOfValue(value) ==
    LET val == TrimSpace(value)
        parts == SplitN2(val, ":")
        seg == SplitN2(parts[2], "-")
        start == mustAtoi(seg[1])
        end == mustAtoi(seg[2])
    IN  IF val = <<>> THEN [kind |-> "skip"]
        ELSE IF Len(parts) # 2 THEN [kind |-> "invalid"]
        ELSE IF Len(seg) # 2 THEN [kind |-> "invalid"]
        ELSE IF start = 0 \/ end = 0 THEN [kind |-> "invalid"]
        ELSE [kind |-> "range", path |-> parts[1],
              range |-> IF end < start THEN [Start |-> end, End |-> start]
                        ELSE [Start |-> start, End |-> end]]

\* the results of ParseRangeFlag: nil says that no map is returned
NilRanges(err) == [ranges |-> EmptyMap, nil |-> TRUE, err |-> err]

RECURSIVE parseRangeValues(_, _)
parseRangeValues(ranges, values) ==
    IF values = <<>> THEN [ranges |-> ranges, nil |-> FALSE, err |-> FALSE]
    ELSE IF rangeOfValue(Head(values)).kind = "skip"
    THEN parseRangeValues(ranges, Tail(values))
    ELSE IF rangeOfValue(Head(values)).kind = "invalid"
    THEN NilRanges(TRUE)
    ELSE parseRangeValues(
           [p \in (DOMAIN ranges) \cup {rangeOfValue(Head(values)).path} |->
              IF p = rangeOfValue(Head(values)).path
              THEN Append(IF p \in DOMAIN ranges THEN ranges[p] ELSE <<>>,
                          rangeOfValue(Head(values)).range)
              ELSE ranges[p]],
           Tail(values))

\* io_helpers.go 55-86
ParseRangeFlag(values) ==
    IF values = <<>> THEN NilRanges(FALSE) ELSE parseRangeValues(EmptyMap, values)

\* app.go 42-73: the input Run reads for the configuration: the mode and the
\* files or diff files.  cfg.DiffData is the content of the file cfg.Diff
\* names, cfg.Data the contents of cfg.Paths.  ok is FALSE when Run returns
\* an error before serving.
readInput(cfg) ==
    LET diffInput == IF cfg.Diff # <<>> THEN cfg.DiffData ELSE TrimSpace(cfg.StdDiff)
        isDiff == diffInput # <<>>
    IN  IF isDiff
        THEN LET parsed == parseUnifiedDiff(diffInput)
             IN  [ok |-> ~parsed.err /\ parsed.files # <<>>,
                  mode |-> ModeDiff, files |-> <<>>, diffFiles |-> parsed.files]
        ELSE [ok |-> cfg.Paths # <<>>, mode |-> ModeFile,
              files |-> loadFiles(cfg.Paths, cfg.Data), diffFiles |-> <<>>]

\* app.go 41-98: Run; the model is the one the server starts to serve
Run(cfg) ==
    CHOOSE r \in
      {[ok |-> l.ok,
        model |->
          CHOOSE v \in
            {IF l.ok THEN updateView(m) ELSE m :
               m \in {[Files |-> l.files,
                       DiffFiles |-> l.diffFiles,
                       SelectedPath |-> IF ~l.ok THEN <<>>
                                        ELSE IF l.mode = ModeDiff
                                        THEN l.diffFiles[1].Path
                                        ELSE l.files[1].Path,
                       SelectedLabel |-> <<>>,
                       Mode |-> l.mode,
                       RenderFile |-> TRUE,
                       RenderComments |-> TRUE,
                       SelectionStart |-> 0,
                       SelectionEnd |-> 0,
                       CommentDraft |-> <<>>,
                       Comments |-> <<>>,
                       Ranges |-> cfg.Ranges,
                       MarkdownRenderByPath |-> EmptyMap,
                       ViewFile |-> EmptyViewFile,
                       ViewDiff |-> EmptyViewDiff,
                       Error |-> NoError]}} : TRUE] :
         l \in {readInput(cfg)}} : TRUE

(***************************************************************************)
(* app.go buildLiveHandler: the event handlers, each as the model it       *)
(* leaves.  Every socket is mounted on the one ReviewModel of the server   *)
(* (MountHandler returns rs.Model), so the handlers act on that one value. *)
(***************************************************************************)
\* a select-file that keeps the selection of the file left behind
selectFileKeepsSelection(model, path) ==
    IF path = <<>> THEN model
    ELSE IF model.Mode = ModeDiff
    THEN IF hasDiffFile(model.DiffFiles, path)
         THEN updateView([model EXCEPT !.SelectedPath = path, !.Error = NoError])
         ELSE model
    ELSE IF hasFile(model.Files, path)
         THEN updateView([model EXCEPT !.SelectedPath = path, !.Error = NoError])
         ELSE model

\* app.go 188-217
selectFile(model, path) ==
    IF path = <<>> THEN model
    ELSE IF model.Mode = ModeDiff
    THEN IF hasDiffFile(model.DiffFiles, path)
         THEN updateView([model EXCEPT !.SelectedPath = path, !.SelectionStart = 0,
                                       !.SelectionEnd = 0, !.Error = NoError])
         ELSE model
    ELSE IF hasFile(model.Files, path)
         THEN updateView([model EXCEPT !.SelectedPath = path, !.SelectionStart = 0,
                                       !.SelectionEnd = 0, !.Error = NoError])
         ELSE model

\* a toggle that flips the mode of every markdown path seen so far
toggleFileRenderEveryPath(model) ==
    IF model.Mode = ModeFile /\ isMarkdownPath(model.SelectedPath)
    THEN updateView([model EXCEPT !.MarkdownRenderByPath =
            [k \in (DOMAIN @) \cup {model.SelectedPath} |-> ~MapGet(@, k, TRUE)]])
    ELSE updateView([model EXCEPT !.RenderFile = ~@])

\* app.go 219-232
toggleFileRender(model) ==
    IF model.Mode = ModeFile /\ isMarkdownPath(model.SelectedPath)
    THEN updateView([model EXCEPT !.MarkdownRenderByPath =
            MapPut(@, model.SelectedPath,
                   ~MapGet(model.MarkdownRenderByPath, model.SelectedPath, TRUE))])
    ELSE updateView([model EXCEPT !.RenderFile = ~@])

\* app.go 234-239
toggleCommentRender(model) == updateView([model EXCEPT !.RenderComments = ~@])

\* a select-line that stores the clicked line as the end without swapping
selectLineNoSwap(model, line, shift) ==
    IF line <= 0 THEN model
    ELSE IF model.Mode = ModeDiff
            /\ ~diffLineExists(model.DiffFiles, model.SelectedPath, line)
    THEN model
    ELSE IF shift /\ model.SelectionStart > 0
    THEN updateView([model EXCEPT !.SelectionEnd = line, !.Error = NoError])
    ELSE updateView([model EXCEPT !.SelectionStart = line, !.SelectionEnd = line,
                                  !.Error = NoError])

\* a select-line that does not look the line up in the selected diff file
selectLineAnyLine(model, line, shift) ==
    IF line <= 0 THEN model
    ELSE IF shift /\ model.SelectionStart > 0
    THEN LET start == IF line < model.SelectionStart THEN line ELSE model.SelectionStart
             end == IF line < model.SelectionStart THEN model.SelectionStart ELSE line
         IN  updateView([model EXCEPT !.SelectionStart = start, !.SelectionEnd = end,
                                      !.Error = NoError])
    ELSE updateView([model EXCEPT !.SelectionStart = line, !.SelectionEnd = line,
                                  !.Error = NoError])

\* a select-line that extends from the anchor on a plain click as well
selectLineAlwaysExtends(model, line, shift) ==
    IF line <= 0 THEN model
    ELSE IF model.Mode = ModeDiff
            /\ ~diffLineExists(model.DiffFiles, model.SelectedPath, line)
    THEN model
    ELSE IF model.SelectionStart > 0
    THEN LET start == IF line < model.SelectionStart THEN line ELSE model.SelectionStart
             end == IF line < model.SelectionStart THEN model.SelectionStart ELSE line
         IN  updateView([model EXCEPT !.SelectionStart = start, !.SelectionEnd = end,
                                      !.Error = NoError])
    ELSE updateView([model EXCEPT !.SelectionStart = line, !.SelectionEnd = line,
                                  !.Error = NoError])

\* app.go 241-268
selectLine(model, line, shift) ==
    IF line <= 0 THEN model
    ELSE IF model.Mode = ModeDiff
            /\ ~diffLineExists(model.DiffFiles, model.SelectedPath, line)
    THEN model
    ELSE IF shift /\ model.SelectionStart > 0
    THEN LET start == IF line < model.SelectionStart THEN line ELSE model.SelectionStart
             end == IF line < model.SelectionStart THEN model.SelectionStart ELSE line
         IN  updateView([model EXCEPT !.SelectionStart = start, !.SelectionEnd = end,
                                      !.Error = NoError])
    ELSE updateView([model EXCEPT !.SelectionStart = line, !.SelectionEnd = line,
                                  !.Error = NoError])

\* an add-comment that drops the selection when it rejects blank text
addCommentResetsOnReject(model, comment) ==
    LET text == TrimSpace(comment)
    IN  IF text = <<>>
        THEN [model EXCEPT !.Error = ErrTextRequired, !.SelectionStart = 0,
                           !.SelectionEnd = 0]
        ELSE IF model.SelectionStart = 0 \/ model.SelectionEnd = 0
        THEN [model EXCEPT !.Error = ErrSelectFirst]
        ELSE updateView([model EXCEPT
                !.Comments = Append(@, [Path |-> model.SelectedPath,
                                        StartLine |-> model.SelectionStart,
                                        EndLine |-> model.SelectionEnd,
                                        Text |-> text]),
                !.CommentDraft = <<>>, !.Error = NoError,
                !.SelectionStart = 0, !.SelectionEnd = 0])

\* an add-comment that puts the new comment in front of the list
addCommentPrepends(model, comment) ==
    LET text == TrimSpace(comment)
    IN  IF text = <<>> THEN [model EXCEPT !.Error = ErrTextRequired]
        ELSE IF model.SelectionStart = 0 \/ model.SelectionEnd = 0
        THEN [model EXCEPT !.Error = ErrSelectFirst]
        ELSE updateView([model EXCEPT
                !.Comments = <<[Path |-> model.SelectedPath,
                                StartLine |-> model.SelectionStart,
                                EndLine |-> model.SelectionEnd,
                                Text |-> text]>> \o @,
                !.CommentDraft = <<>>, !.Error = NoError,
                !.SelectionStart = 0, !.SelectionEnd = 0])

\* an add-comment that stores the text as it was typed
addCommentUntrimmed(model, comment) ==
    LET text == TrimSpace(comment)
    IN  IF text = <<>> THEN [model EXCEPT !.Error = ErrTextRequired]
        ELSE IF model.SelectionStart = 0 \/ model.SelectionEnd = 0
        THEN [model EXCEPT !.Error = ErrSelectFirst]
        ELSE updateView([model EXCEPT
                !.Comments = Append(@, [Path |-> model.SelectedPath,
                                        StartLine |-> model.SelectionStart,
                                        EndLine |-> model.SelectionEnd,
                                        Text |-> comment]),
                !.CommentDraft = <<>>, !.Error = NoError,
                !.SelectionStart = 0, !.SelectionEnd = 0])

\* app.go 270-293
addComment(model, comment) ==
    LET text == TrimSpace(comment)
    IN  IF text = <<>> THEN [model EXCEPT !.Error = ErrTextRequired]
        ELSE IF model.SelectionStart = 0 \/ model.SelectionEnd = 0
        THEN [model EXCEPT !.Error = ErrSelectFirst]
        ELSE updateView([model EXCEPT
                !.Comments = Append(@, [Path |-> model.SelectedPath,
                                        StartLine |-> model.SelectionStart,
                                        EndLine |-> model.SelectionEnd,
                                        Text |-> text]),
                !.CommentDraft = <<>>, !.Error = NoError,
                !.SelectionStart = 0, !.SelectionEnd = 0])

\* a cancel that forgets to reset the end of the selection
cancelCommentKeepsEnd(model) ==
    updateView([model EXCEPT !.CommentDraft = <<>>, !.Error = NoError,
                             !.SelectionStart = 0])

\* a cancel that also empties the comment list
cancelCommentClearsList(model) ==
    updateView([model EXCEPT !.CommentDraft = <<>>, !.Error = NoError,
                             !.SelectionStart = 0, !.SelectionEnd = 0,
                             !.Comments = <<>>])

\* a cancel that leaves the validation message standing
cancelCommentKeepsError(model) ==
    updateView([model EXCEPT !.CommentDraft = <<>>,
                             !.SelectionStart = 0, !.SelectionEnd = 0])

\* a cancel that leaves the view as it was
cancelCommentNoRefresh(model) ==
    [model EXCEPT !.CommentDraft = <<>>, !.Error = NoError,
                  !.SelectionStart = 0, !.SelectionEnd = 0]

\* app.go 295-303
cancelComment(model) ==
    updateView([model EXCEPT !.CommentDraft = <<>>, !.Error = NoError,
                             !.SelectionStart = 0, !.SelectionEnd = 0])

(***************************************************************************)
(* Diff texts the parser is applied to.                                    *)
(***************************************************************************)
LnBanner == <<"d", "i", "f", "f", " ", "-", "-", "g", "i", "t", " ", "a">>
LnOldA == <<"-", "-", "-", " ", "a", "/", "f">>
LnNewB == <<"+", "+", "+", " ", "b", "/", "g">>
LnOldNull == <<"-", "-", "-", " ", "/", "d", "e", "v", "/", "n", "u", "l", "l">>
LnNewNull == <<"+", "+", "+", " ", "/", "d", "e", "v", "/", "n", "u", "l", "l">>
LnHunk13 == <<"@", "@", " ", "-", "1", ",", "3", " ", "+", "1", ",", "4", " ", "@", "@">>
LnHunk00 == <<"@", "@", " ", "-", "0", ",", "0", " ", "+", "1", ",", "2", " ", "@", "@">>
LnHunk25 == <<"@", "@", " ", "-", "2", " ", "+", "5", " ", "@", "@">>
LnHunkBad == <<"@", "@", " ", "-", "1", ",", "x", " ", "+", "1", " ", "@", "@">>
LnCtx == <<" ", "c">>
LnDel == <<"-", "d">>
LnAdd == <<"+", "a">>
LnBare == <<"m">>

DiffLines ==
    {LnBanner, LnOldA, LnNewB, LnOldNull, LnNewNull, LnHunk13, LnHunk00, LnHunk25,
     LnHunkBad, LnCtx, LnDel, LnAdd, LnBare, <<>>, NoNewlineMarker}

\* the lines joined by sep, each line followed by sep when terminated
RECURSIVE Join(_, _, _)
Join(lines, sep, terminated) ==
    IF lines = <<>> THEN <<>>
    ELSE IF Len(lines) = 1 THEN Head(lines) \o (IF terminated THEN sep ELSE <<>>)
    ELSE Head(lines) \o sep \o Join(Tail(lines), sep, terminated)

LF == <<"\n">>
CRLF == <<"\r", "\n">>

\* the input of TestParseUnifiedDiff without its index line (scenario A)
ScenarioALines ==
    << <<"d", "i", "f", "f", " ", "-", "-", "g", "i", "t", " ", "a", "/", "h", "e", "l", "l",
         "o", ".", "t", "x", "t", " ", "b", "/", "h", "e", "l", "l", "o", ".", "t", "x", "t">>,
       <<"-", "-", "-", " ", "a", "/", "h", "e", "l", "l", "o", ".", "t", "x", "t">>,
       <<"+", "+", "+", " ", "b", "/", "h", "e", "l", "l", "o", ".", "t", "x", "t">>,
       LnHunk13,
       <<" ", "l", "i", "n", "e", "1">>,
       <<"-", "l", "i", "n", "e", "2">>,
       <<"+", "l", "i", "n", "e", "2", "-", "n", "e", "w">>,
       <<" ", "l", "i", "n", "e", "3">>,
       <<"+", "l", "i", "n", "e", "4">> >>

ScenarioA == Join(ScenarioALines, LF, TRUE)

\* the input of TestParseUnifiedDiffFileAdd
FileAddLines ==
    << <<"d", "i", "f", "f", " ", "-", "-", "g", "i", "t", " ", "a", "/", "d", "e", "v", "/",
         "n", "u", "l", "l", " ", "b", "/", "n", "e", "w", ".", "t", "x", "t">>,
       LnOldNull,
       <<"+", "+", "+", " ", "b", "/", "n", "e", "w", ".", "t", "x", "t">>,
       LnHunk00,
       <<"+", "h", "e", "l", "l", "o">>,
       <<"+", "w", "o", "r", "l", "d">> >>

FileAdd == Join(FileAddLines, LF, TRUE)

ScenarioTexts ==
    {Join(ls, sep, t) : ls \in {ScenarioALines, FileAddLines}, sep \in {LF, CRLF},
                        t \in BOOLEAN}

LineSeqs == UNION {[1..k -> DiffLines] : k \in 0..MaxInputLines}

\* file blocks: an optional "diff --git" banner, the header pair, one hunk
MaxBlocks == 3

BlockKinds == [banner : BOOLEAN, hunk : {LnHunk13, LnHunk25}]

BlockLines(b) ==
    (IF b.banner THEN <<LnBanner>> ELSE <<>>) \o <<LnOldA, LnNewB, b.hunk, LnCtx, LnAdd>>

RECURSIVE BlocksLines(_)
BlocksLines(bs) == IF bs = <<>> THEN <<>> ELSE BlockLines(Head(bs)) \o BlocksLines(Tail(bs))

BlockSeqs == UNION {[1..k -> BlockKinds] : k \in 1..MaxBlocks}

BlockText(bs) == Join(BlocksLines(bs), LF, FALSE)

BlockTexts == {BlockText(bs) : bs \in BlockSeqs}

DiffTexts == {Join(ls, LF, t) : ls \in LineSeqs, t \in BOOLEAN} \cup ScenarioTexts \cup BlockTexts

(***************************************************************************)
(* Configurations the review session is started with.                      *)
(***************************************************************************)
PathAGo == <<"a", ".", "g", "o">>
PathRMd == <<"r", ".", "m", "d">>
PathG == <<"g">>
PathH == <<"h">>
PathNMarkdown == <<"n", ".", "M", "a", "r", "k", "d", "o", "w", "n">>

\* two files; g has two hunks with the new-side lines 2, 3 and 5 and one
\* deleted line, h has the new-side line 5 and the line of the final newline
SessionDiff ==
    Join(<< LnOldA, LnNewB,
            <<"@", "@", " ", "-", "1", ",", "2", " ", "+", "2", ",", "2", " ", "@", "@">>,
            LnCtx, LnDel, LnAdd,
            <<"@", "@", " ", "-", "4", ",", "0", " ", "+", "5", " ", "@", "@">>,
            LnAdd,
            LnBanner,
            <<"+", "+", "+", " ", "b", "/", "h">>,
            <<"@", "@", " ", "-", "0", ",", "0", " ", "+", "5", " ", "@", "@">>,
            LnAdd >>, LF, TRUE)

CfgDiff ==
    [StdDiff |-> <<>>, Diff |-> <<"c", ".", "d", "i", "f", "f">>, DiffData |-> SessionDiff,
     Paths |-> <<>>, Data |-> <<>>, Ranges |-> EmptyMap]

\* a.go has four lines, r.md one
CfgFiles ==
    [StdDiff |-> <<>>, Diff |-> <<>>, DiffData |-> <<>>,
     Paths |-> <<PathAGo, PathRMd>>,
     Data |-> << <<"w", "\n", "x", "\n", "y", "\n", "z">>, <<"#", " ", "t">> >>,
     Ranges |-> EmptyMap]

CfgRanges ==
    [CfgFiles EXCEPT !.Ranges =
        MapPut(EmptyMap, PathAGo, <<[Start |-> 3, End |-> 9], [Start |-> 1, End |-> 1]>>)]

Configs == {CfgDiff, CfgFiles, CfgRanges}

\* a diff of two file blocks without banner, each with the new-side lines 5
\* and 6: the parser puts both hunks into one diff file
CfgOverlap ==
    [StdDiff |-> <<>>, Diff |-> <<"c", ".", "d", "i", "f", "f">>,
     DiffData |-> BlockText(<<[banner |-> FALSE, hunk |-> LnHunk25],
                              [banner |-> FALSE, hunk |-> LnHunk25]>>),
     Paths |-> <<>>, Data |-> <<>>, Ranges |-> EmptyMap]

\* two markdown files; r.md has two lines and is shown with its first line only
CfgMarkdown ==
    [StdDiff |-> <<>>, Diff |-> <<>>, DiffData |-> <<>>,
     Paths |-> <<PathRMd, PathNMarkdown>>,
     Data |-> << <<"#", " ", "t", "\n", "u">>, <<"v">> >>,
     Ranges |-> MapPut(EmptyMap, PathRMd, <<[Start |-> 1, End |-> 1]>>)]

(***************************************************************************)
(* Inputs of the events.                                                   *)
(***************************************************************************)
\* most comments a session collects
MaxComments == 2

PathInputs == {<<>>, PathAGo, PathRMd, PathNMarkdown, PathG, PathH, <<"z", "z">>}
LineInputs == {-1, 0, 2, 5}
CommentInputs == {<<>>, <<" ", "\n">>, <<" ", "h", "i", " ">>}

(***************************************************************************)
(* State.                                                                  *)
(*   rs      the ReviewServer: its Model and whether DoneCh is closed      *)
(*   input, called, output   the argument and the result of the pure       *)
(*           function a specification applies                              *)
(***************************************************************************)
VARIABLES rs, input, called, output

vars == <<rs, input, called, output>>

NoServer == [Model |-> <<>>, Done |-> FALSE]

NoCall == [files |-> <<>>, err |-> FALSE]

InitParse ==
    /\ input \in DiffTexts
    /\ called = FALSE
    /\ output = NoCall
    /\ rs = NoServer

Parse ==
    /\ ~called
    /\ called' = TRUE
    /\ output' = parseUnifiedDiff(input)
    /\ UNCHANGED <<input, rs>>

NextParse == Parse

SpecParse == InitParse /\ [][NextParse]_vars

(***************************************************************************)
(* normalizeRanges applied to lists of line ranges.                        *)
(***************************************************************************)
\* the longest list of ranges tried
MaxRanges == 2

RangeEnds == {-1, 0, 1, 2, 3, 5, MaxInt}

LineRanges == [Start : RangeEnds, End : RangeEnds]

LR(start, end) == [Start |-> start, End |-> end]

\* the list of TestNormalizeRangesMerge
MergeExample == <<LR(5, 10), LR(9, 15), LR(20, 22)>>

RangeLists == UNION {[1..k -> LineRanges] : k \in 0..MaxRanges} \cup {MergeExample}

InitNormalize ==
    /\ input \in RangeLists
    /\ called = FALSE
    /\ output = <<>>
    /\ rs = NoServer

Normalize ==
    /\ ~called
    /\ called' = TRUE
    /\ output' = normalizeRanges(input)
    /\ UNCHANGED <<input, rs>>

NextNormalize == Normalize

SpecNormalize == InitNormalize /\ [][NextNormalize]_vars

(***************************************************************************)
(* ParseRangeFlag applied to lists of --range values.                      *)
(***************************************************************************)
\* the longest list of values tried
MaxFlags == 2

FlagA1020 == <<"a", ".", "g", "o", ":", "1", "0", "-", "2", "0">>
FlagA3025 == <<"a", ".", "g", "o", ":", "3", "0", "-", "2", "5">>
FlagB58 == <<"b", ".", "g", "o", ":", "5", "-", "8">>
FlagEmpty == <<>>
FlagBlank == <<" ", "\t">>
FlagPadded == <<" ", "b", ".", "g", "o", ":", "3", "-", "3", "\t">>
FlagNoColon == <<"a", ".", "g", "o">>
FlagNoDash == <<"a", ".", "g", "o", ":", "5">>
FlagZero == <<"a", ".", "g", "o", ":", "0", "-", "3">>
FlagLetter == <<"a", ".", "g", "o", ":", "x", "-", "3">>
FlagNegative == <<"a", ".", "g", "o", ":", "3", "-", "-", "5">>
FlagNoEnd == <<"a", ".", "g", "o", ":", "3", "-">>
FlagNoPath == <<":", "1", "-", "2">>
FlagNoStart == <<"a", ".", "g", "o", ":", "-", "3", "-", "5">>

FlagValues ==
    {FlagA1020, FlagA3025, FlagB58, FlagEmpty, FlagBlank, FlagPadded, FlagNoColon,
     FlagNoDash, FlagZero, FlagLetter, FlagNegative, FlagNoEnd, FlagNoPath, FlagNoStart}

\* the values of TestParseRangeFlag
FlagExample == <<FlagA1020, FlagA3025, FlagB58>>

FlagLists == UNION {[1..k -> FlagValues] : k \in 0..MaxFlags} \cup {FlagExample}

InitRangeFlag ==
    /\ input \in FlagLists
    /\ called = FALSE
    /\ output = NilRanges(FALSE)
    /\ rs = NoServer

RangeFlag ==
    /\ ~called
    /\ called' = TRUE
    /\ output' = ParseRangeFlag(input)
    /\ UNCHANGED <<input, rs>>

NextRangeFlag == RangeFlag

SpecRangeFlag == InitRangeFlag /\ [][NextRangeFlag]_vars

(***************************************************************************)
(* buildViewLinesWithRanges applied to loaded files and display ranges.    *)
(***************************************************************************)
\* the files of CfgFiles as loadFiles returns them: four lines and one line
LoadedFiles == loadFiles(CfgFiles.Paths, CfgFiles.Data)

FileRangeInputs == [file : {LoadedFiles[i] : i \in 1..Len(LoadedFiles)}, ranges : RangeLists]

InitFileLines ==
    /\ input \in FileRangeInputs
    /\ called = FALSE
    /\ output = <<>>
    /\ rs = NoServer

\* view.go 46: the lines of the file view, here without selection or comments
FileLines ==
    /\ ~called
    /\ called' = TRUE
    /\ output' = buildViewLinesWithRanges(input.file, <<>>, 0, 0, <<>>, input.ranges)
    /\ UNCHANGED <<input, rs>>

NextFileLines == FileLines

SpecFileLines == InitFileLines /\ [][NextFileLines]_vars

(***************************************************************************)
(* The review session: Init is the state Run has built when it starts to   *)
(* serve; each action is one event handled to completion.                  *)
(***************************************************************************)
\* the models of the configurations Run starts to serve
InitialModels == {r.model : r \in {s \in {Run(cfg) : cfg \in Configs} : s.ok}}

Init ==
    /\ \E model \in InitialModels : rs = [Model |-> model, Done |-> FALSE]
    /\ input = <<>>
    /\ called = FALSE
    /\ output = NoCall

Handled(model) ==
    /\ rs' = [rs EXCEPT !.Model = model]
    /\ UNCHANGED <<input, called, output>>

SelectFile == \E path \in PathInputs : Handled(selectFile(rs.Model, path))

ToggleFileRender == Handled(toggleFileRender(rs.Model))

ToggleCommentRender == Handled(toggleCommentRender(rs.Model))

SelectLine ==
    \E line \in LineInputs, shift \in BOOLEAN : Handled(selectLine(rs.Model, line, shift))

\* the session is cut off after MaxComments comments
AddComment ==
    \E comment \in CommentInputs :
      /\ Len(addComment(rs.Model, comment).Comments) <= MaxComments
      /\ Handled(addComment(rs.Model, comment))

CancelComment == Handled(cancelComment(rs.Model))

\* rs.DoneOnce.Do(close(rs.DoneCh)): the model is returned as it is
Finish ==
    /\ rs' = [rs EXCEPT !.Done = TRUE]
    /\ UNCHANGED <<input, called, output>>

Next ==
    \/ SelectFile
    \/ ToggleFileRender
    \/ ToggleCommentRender
    \/ SelectLine
    \/ AddComment
    \/ CancelComment
    \/ Finish

Spec == Init /\ [][Next]_vars

\* the review session started on the markdown files of CfgMarkdown
InitMarkdown ==
    /\ \E r \in {Run(CfgMarkdown)} : r.ok /\ rs = [Model |-> r.model, Done |-> FALSE]
    /\ input = <<>>
    /\ called = FALSE
    /\ output = NoCall

SpecMarkdown == InitMarkdown /\ [][Next]_vars

\* the review session started on the diff of CfgOverlap
InitOverlap ==
    /\ \E r \in {Run(CfgOverlap)} : r.ok /\ rs = [Model |-> r.model, Done |-> FALSE]
    /\ input = <<>>
    /\ called = FALSE
    /\ output = NoCall

SpecOverlap == InitOverlap /\ [][Next]_vars

(***************************************************************************)
(* The review session with several sockets.  Every socket is served on    *)
(* the goroutine of its connection; the handlers take no lock, so their   *)
(* reads and writes of the model interleave.  Here                        *)
(*   rs      the ReviewServer, its Model being the one ReviewModel that   *)
(*           Run allocates                                                *)
(*   input   for each socket its assigns, the position of its handler and *)
(*           the handler's local variables                                *)
(*   output  the number of add-comment events that passed validation      *)
(* select-line and add-comment are split into the steps that read or      *)
(* write the model.  append copies the slice it read: with at most        *)
(* MaxComments comments the slice is always full, so append reallocates.  *)
(***************************************************************************)
Sockets == {1, 2}

\* most events a socket sends
MaxEvents == 2

NilAssigns == "nil"

\* the pointer rs.Model: the field of rs that holds the model
ModelPointer == "Model"

NewSocket ==
    [pc |-> "new", assigns |-> NilAssigns, events |-> 0, path |-> <<>>,
     start |-> 0, end |-> 0, text |-> <<>>, comments |-> <<>>]

\* app.go 323-333: both branches yield a pointer
getModel(assigns, fallback) == IF assigns = NilAssigns THEN fallback ELSE assigns

\* the model a handler of socket s works on
SocketModel(s) == rs[getModel(input[s].assigns, ModelPointer)]

InitSockets ==
    /\ \E r \in {Run(CfgFiles)} : r.ok /\ rs = [Model |-> r.model, Done |-> FALSE]
    /\ input = [s \in Sockets |-> NewSocket]
    /\ called = FALSE
    /\ output = 0

\* a step of socket s: the model it points to and its own position change
SocketStep(s, model, socket) ==
    /\ rs' = [rs EXCEPT ![getModel(input[s].assigns, ModelPointer)] = model]
    /\ input' = [input EXCEPT ![s] = socket]
    /\ UNCHANGED called

\* app.go 184-186: the socket's assigns become rs.Model
SocketMount ==
    \E s \in Sockets :
      /\ input[s].pc = "new"
      /\ SocketStep(s, SocketModel(s), [input[s] EXCEPT !.pc = "idle", !.assigns = ModelPointer])
      /\ UNCHANGED output

\* app.go 241-258: the checks of select-line and the choice of the bounds
SelectLineBegin ==
    \E s \in Sockets, line \in LineInputs, shift \in BOOLEAN :
    \E model \in {SocketModel(s)} :
      /\ input[s].pc = "idle" /\ input[s].events < MaxEvents
      /\ UNCHANGED output
      /\ IF line <= 0 \/ (model.Mode = ModeDiff
                          /\ ~diffLineExists(model.DiffFiles, model.SelectedPath, line))
         THEN SocketStep(s, model, [input[s] EXCEPT !.events = @ + 1])
         ELSE IF shift /\ model.SelectionStart > 0
         THEN SocketStep(s, model,
                [input[s] EXCEPT !.events = @ + 1, !.pc = "writeStart",
                                 !.start = IF line < model.SelectionStart THEN line
                                           ELSE model.SelectionStart,
                                 !.end = IF line < model.SelectionStart
                                         THEN model.SelectionStart ELSE line])
         ELSE SocketStep(s, model,
                [input[s] EXCEPT !.events = @ + 1, !.pc = "writeStart",
                                 !.start = line, !.end = line])

\* app.go 259 and 262: model.SelectionStart = ...
WriteSelectionStart ==
    \E s \in Sockets :
      /\ input[s].pc = "writeStart"
      /\ SocketStep(s, [SocketModel(s) EXCEPT !.SelectionStart = input[s].start],
                    [input[s] EXCEPT !.pc = "writeEnd"])
      /\ UNCHANGED output

\* app.go 260 and 263: model.SelectionEnd = ...
WriteSelectionEnd ==
    \E s \in Sockets :
      /\ input[s].pc = "writeEnd"
      /\ SocketStep(s, [SocketModel(s) EXCEPT !.SelectionEnd = input[s].end],
                    [input[s] EXCEPT !.pc = "refresh"])
      /\ UNCHANGED output

\* app.go 265-267 and 290-292: model.Error = "", updateView(model), return
Refresh ==
    \E s \in Sockets :
      /\ input[s].pc = "refresh"
      /\ SocketStep(s, updateView([SocketModel(s) EXCEPT !.Error = NoError]),
                    [input[s] EXCEPT !.pc = "idle", !.path = <<>>, !.start = 0, !.end = 0,
                                     !.text = <<>>, !.comments = <<>>])
      /\ UNCHANGED output

\* app.go 270-280: the validation of add-comment
AddCommentBegin ==
    \E s \in Sockets, comment \in CommentInputs :
    \E model \in {SocketModel(s)} :
      /\ input[s].pc = "idle" /\ input[s].events < MaxEvents
      /\ IF TrimSpace(comment) = <<>>
         THEN /\ SocketStep(s, [model EXCEPT !.Error = ErrTextRequired],
                            [input[s] EXCEPT !.events = @ + 1])
              /\ UNCHANGED output
         ELSE IF model.SelectionStart = 0 \/ model.SelectionEnd = 0
         THEN /\ SocketStep(s, [model EXCEPT !.Error = ErrSelectFirst],
                            [input[s] EXCEPT !.events = @ + 1])
              /\ UNCHANGED output
         ELSE /\ output < MaxComments
              /\ SocketStep(s, model,
                   [input[s] EXCEPT !.events = @ + 1, !.pc = "readComments",
                                    !.text = TrimSpace(comment)])
              /\ output' = output + 1

\* app.go 281: the slice model.Comments handed to append
ReadComments ==
    \E s \in Sockets :
      /\ input[s].pc = "readComments"
      /\ SocketStep(s, SocketModel(s),
                    [input[s] EXCEPT !.pc = "readSelection",
                                     !.comments = SocketModel(s).Comments])
      /\ UNCHANGED output

\* app.go 282-284: the fields of the new comment
ReadSelection ==
    \E s \in Sockets :
      /\ input[s].pc = "readSelection"
      /\ SocketStep(s, SocketModel(s),
                    [input[s] EXCEPT !.pc = "append",
                                     !.path = SocketModel(s).SelectedPath,
                                     !.start = SocketModel(s).SelectionStart,
                                     !.end = SocketModel(s).SelectionEnd])
      /\ UNCHANGED output

\* app.go 281: model.Comments = append(...)
AppendComment ==
    \E s \in Sockets :
      /\ input[s].pc = "append"
      /\ SocketStep(s, [SocketModel(s) EXCEPT !.Comments =
                           Append(input[s].comments,
                                  [Path |-> input[s].path, StartLine |-> input[s].start,
                                   EndLine |-> input[s].end, Text |-> input[s].text])],
                    [input[s] EXCEPT !.pc = "clearStart"])
      /\ UNCHANGED output

\* app.go 287-289: the draft, the error and the start of the selection
ClearSelectionStart ==
    \E s \in Sockets :
      /\ input[s].pc = "clearStart"
      /\ SocketStep(s, [SocketModel(s) EXCEPT !.CommentDraft = <<>>, !.Error = NoError,
                                              !.SelectionStart = 0],
                    [input[s] EXCEPT !.pc = "clearEnd"])
      /\ UNCHANGED output

\* app.go 290: model.SelectionEnd = 0
ClearSelectionEnd ==
    \E s \in Sockets :
      /\ input[s].pc = "clearEnd"
      /\ SocketStep(s, [SocketModel(s) EXCEPT !.SelectionEnd = 0],
                    [input[s] EXCEPT !.pc = "refresh"])
      /\ UNCHANGED output

NextSockets ==
    \/ SocketMount
    \/ SelectLineBegin
    \/ WriteSelectionStart
    \/ WriteSelectionEnd
    \/ Refresh
    \/ AddCommentBegin
    \/ ReadComments
    \/ ReadSelection
    \/ AppendComment
    \/ ClearSelectionStart
    \/ ClearSelectionEnd

SpecSockets == InitSockets /\ [][NextSockets]_vars

(***************************************************************************)
(* Run from the start of the server to its return.  Here                   *)
(*   rs      the ReviewServer: its Model and whether DoneCh is closed      *)
(*   called  whether DoneOnce has run its function                         *)
(*   input   the position of Run: "serving" (blocked on <-DoneCh),         *)
(*           "stopping" (in srv.Shutdown), "emitted", "returned", or       *)
(*           "panic" when a goroutine panicked                             *)
(*   output  what was written to stdout, one element per emitToon call     *)
(* The handlers go on running until the process ends.  stdout is taken to  *)
(* accept the write of emitToon.                                           *)
(***************************************************************************)
\* a finish handler that closes the channel at every event
doOnceEveryTime(once, done) == [once |-> TRUE, Done |-> TRUE, panic |-> done]

\* app.go 314-316: rs.DoneOnce.Do(func() { close(rs.DoneCh) }); closing a
\* closed channel panics
doOnce(once, done) ==
    IF once THEN [once |-> TRUE, Done |-> done, panic |-> FALSE]
    ELSE [once |-> TRUE, Done |-> TRUE, panic |-> done]

\* io_helpers.go 88-98: the document handed to the encoder
emitToon(comments) == [comments |-> comments]

InitRun ==
    /\ \E r \in {Run(CfgFiles)} : r.ok /\ rs = [Model |-> r.model, Done |-> FALSE]
    /\ input = "serving"
    /\ called = FALSE
    /\ output = <<>>

Running == input \notin {"returned", "panic"}

\* the events other than finish, while the process lives
SessionEvent ==
    /\ Running
    /\ \/ SelectFile
       \/ ToggleFileRender
       \/ ToggleCommentRender
       \/ SelectLine
       \/ AddComment
       \/ CancelComment

\* app.go 305-318: the finish handler
FinishOnce ==
    /\ Running
    /\ \E r \in {doOnce(called, rs.Done)} :
         /\ called' = r.once
         /\ rs' = [rs EXCEPT !.Done = r.Done]
         /\ input' = IF r.panic THEN "panic" ELSE input
    /\ UNCHANGED output

\* app.go 128-132: <-DoneCh returns once the channel is closed, then
\* srv.Shutdown with its timeout of three seconds
RunShutdown ==
    /\ input = "serving" /\ rs.Done
    /\ input' = "stopping"
    /\ UNCHANGED <<rs, called, output>>

\* app.go 134: emitToon(os.Stdout, meatcheckServer.Model.Comments)
RunEmit ==
    /\ input = "stopping"
    /\ output' = Append(output, emitToon(rs.Model.Comments))
    /\ input' = "emitted"
    /\ UNCHANGED <<rs, called>>

\* app.go 137: return nil
RunReturn ==
    /\ input = "emitted"
    /\ input' = "returned"
    /\ UNCHANGED <<rs, called, output>>

NextRun ==
    \/ SessionEvent
    \/ FinishOnce
    \/ RunShutdown
    \/ RunEmit
    \/ RunReturn

SpecRun == InitRun /\ [][NextRun]_vars

\* the goroutine of Run is scheduled whenever it can take a step, and
\* srv.Shutdown returns when its timeout expires at the latest
SpecRunFair ==
    SpecRun /\ WF_vars(RunShutdown) /\ WF_vars(RunEmit) /\ WF_vars(RunReturn)

(***************************************************************************)
(* Claims about parseUnifiedDiff (checked under SpecParse).                *)
(***************************************************************************)
OldSide(dl) == dl.Kind \in {DiffContext, DiffDel}
NewSide(dl) == dl.Kind \in {DiffContext, DiffAdd}

\* number of old-side (new-side) lines among the first n lines
OldBefore(lines, n) == Cardinality({j \in 1..n : OldSide(lines[j])})
NewBefore(lines, n) == Cardinality({j \in 1..n : NewSide(lines[j])})

AllHunks == {<<i, j>> \in (1..Len(output.files)) \X (1..8) :
                j <= Len(output.files[i].Hunks)}

HunkAt(ij) == output.files[ij[1]].Hunks[ij[2]]

\* C1: in every returned hunk the old-side numbers of the context and delete
\* lines run oldStart, oldStart+1, ... and the new-side numbers of the context
\* and add lines run newStart, newStart+1, ..., whatever counts the header
\* declares.
C1_CursorNumbering ==
    called =>
      \A ij \in AllHunks :
        LET h == HunkAt(ij)
        IN  \A k \in 1..Len(h.Lines) :
              /\ OldSide(h.Lines[k]) =>
                    h.Lines[k].OldLine = h.OldStart + OldBefore(h.Lines, k - 1)
              /\ NewSide(h.Lines[k]) =>
                    h.Lines[k].NewLine = h.NewStart + NewBefore(h.Lines, k - 1)

\* a hunk whose header declares one line per side but that has two old-side
\* and two new-side lines, with different start numbers
C1_Witness ==
    /\ called
    /\ \E ij \in AllHunks :
         LET h == HunkAt(ij)
         IN  /\ h.OldStart # h.NewStart
             /\ h.OldCount = 1 /\ h.NewCount = 1
             /\ OldBefore(h.Lines, Len(h.Lines)) >= 2
             /\ NewBefore(h.Lines, Len(h.Lines)) >= 2

Txt_line1 == <<"l", "i", "n", "e", "1">>
Txt_line2 == <<"l", "i", "n", "e", "2">>
Txt_line2new == <<"l", "i", "n", "e", "2", "-", "n", "e", "w">>
Txt_line3 == <<"l", "i", "n", "e", "3">>
Txt_line4 == <<"l", "i", "n", "e", "4">>

DL(kind, old, new, text) == [Kind |-> kind, OldLine |-> old, NewLine |-> new, Text |-> text]

ScenarioAFive ==
    << DL(DiffContext, 1, 1, Txt_line1), DL(DiffDel, 2, 0, Txt_line2),
       DL(DiffAdd, 0, 2, Txt_line2new), DL(DiffContext, 3, 3, Txt_line3),
       DL(DiffAdd, 0, 4, Txt_line4) >>

NormInput == ReplaceCRLF(input)
EndsWithNewline == NormInput # <<>> /\ NormInput[Len(NormInput)] = "\n"
FrontState == parseLines(ParseStart, Split(SubSeq(NormInput, 1, Len(NormInput) - 1)), 1)

\* the files with the last line of the last hunk of the last file removed
DropLastLine(fs) ==
    LET i == Len(fs)
        j == Len(fs[i].Hunks)
        n == Len(fs[i].Hunks[j].Lines)
    IN  [fs EXCEPT ![i].Hunks[j].Lines = SubSeq(@, 1, n - 1)]

\* C3: a text that ends with a newline while a hunk is open gets one extra
\* empty context line at the end of that hunk, numbered with the next old and
\* new cursor values; the rest of the result is the result for the text
\* without that newline.  Scenario A, newline-terminated, has 6 lines.
C3_TrailingNewlineLine ==
    /\ called /\ EndsWithNewline /\ FrontState.hasHunk /\ ~FrontState.err =>
         /\ ~output.err
         /\ output.files # <<>>
         /\ LET f == output.files[Len(output.files)]
            IN  /\ f.Hunks # <<>>
                /\ LET h == f.Hunks[Len(f.Hunks)]
                       n == Len(h.Lines)
                   IN  /\ n >= 1
                       /\ h.Lines[n] =
                            DL(DiffContext, h.OldStart + OldBefore(h.Lines, n - 1),
                               h.NewStart + NewBefore(h.Lines, n - 1), <<>>)
                       /\ DropLastLine(output.files) = flushFile(FrontState).files
    /\ called /\ input = ScenarioA => Len(output.files[1].Hunks[1].Lines) = 6

\* the file-add test input: its hunk of two add lines ends with the extra line
C3_Witness ==
    /\ called /\ input = FileAdd
    /\ Len(output.files) = 1
    /\ Len(output.files[1].Hunks[1].Lines) = 3
    /\ output.files[1].Hunks[1].Lines[3].Kind = DiffContext

\* C4 as stated: every DiffLine has add => old = 0 and new # 0, delete =>
\* new = 0 and old # 0, context => old # 0 and new # 0.
C4_KindNumbering ==
    called =>
      \A ij \in AllHunks :
        \A k \in 1..Len(HunkAt(ij).Lines) :
          LET dl == HunkAt(ij).Lines[k]
          IN  /\ dl.Kind = DiffAdd => dl.OldLine = 0 /\ dl.NewLine # 0
              /\ dl.Kind = DiffDel => dl.NewLine = 0 /\ dl.OldLine # 0
              /\ dl.Kind = DiffContext => dl.OldLine # 0 /\ dl.NewLine # 0

InputLines == Split(NormInput)

BadHeaderLine(raw) == HasPrefix(raw, <<"@", "@", " ">>) /\ ~hunkHeaderRE(raw).ok

\* C5: the call returns an error, and then no DiffFile at all, exactly when
\* some line of the input starts with "@@ " and does not match the hunk
\* header pattern.
C5_ErrorIffBadHeader ==
    called =>
      /\ output.err <=> \E i \in 1..Len(InputLines) : BadHeaderLine(InputLines[i])
      /\ output.err => output.files = <<>>

\* a file was already flushed when the invalid header is met
C5_Witness ==
    /\ called /\ output.err /\ output.files = <<>>
    /\ \E i \in 1..Len(InputLines) :
         /\ BadHeaderLine(InputLines[i])
         /\ parseLines(ParseStart, SubSeq(InputLines, 1, i - 1), 1).files # <<>>

(***************************************************************************)
(* Claims about the review session (checked under Spec).                   *)
(***************************************************************************)
SelEmpty(model) == model.SelectionStart = 0 /\ model.SelectionEnd = 0

\* C6: in every state the selection is either Empty (start = 0 and end = 0)
\* or satisfies 1 <= start <= end.
C6_SelectionWellFormed ==
    \/ SelEmpty(rs.Model)
    \/ 1 <= rs.Model.SelectionStart /\ rs.Model.SelectionStart <= rs.Model.SelectionEnd

\* a multi-line selection, with a toggle and a finish behind it
C6_Witness ==
    /\ rs.Model.SelectionStart = 2 /\ rs.Model.SelectionEnd = 5
    /\ rs.Done /\ ~rs.Model.RenderComments
    /\ rs.Model.Comments # <<>>

\* select-line passes its guards: the line is positive and, in diff mode, is
\* the new-side number of a line of the selected file that is not deleted
Accepted(model, line) ==
    /\ line > 0
    /\ model.Mode = ModeDiff =>
         \E i \in 1..Len(model.DiffFiles) :
           /\ model.DiffFiles[i].Path = model.SelectedPath
           /\ \A i2 \in 1..(i - 1) : model.DiffFiles[i2].Path # model.SelectedPath
           /\ \E j \in 1..Len(model.DiffFiles[i].Hunks) :
                \E k \in 1..Len(model.DiffFiles[i].Hunks[j].Lines) :
                  /\ model.DiffFiles[i].Hunks[j].Lines[k].NewLine = line
                  /\ model.DiffFiles[i].Hunks[j].Lines[k].Kind # DiffDel

Min(a, b) == IF a < b THEN a ELSE b
Max(a, b) == IF a < b THEN b ELSE a

\* C7: a step that is an accepted shift select-line on line M from a non-empty
\* selection {a,b} leaves the selection {min(a,M), max(a,M)}; select(5)
\* followed by shift-select(2) gives {2,5}.
C7_ShiftExtendsFromAnchor ==
    [][\A M \in LineInputs :
          /\ Accepted(rs.Model, M)
          /\ rs.Model.SelectionStart > 0
          /\ rs'.Model = selectLine(rs.Model, M, TRUE)
          => /\ rs'.Model.SelectionStart = Min(rs.Model.SelectionStart, M)
             /\ rs'.Model.SelectionEnd = Max(rs.Model.SelectionStart, M)
             /\ (rs.Model.SelectionStart = 5 /\ rs.Model.SelectionEnd = 5 /\ M = 2
                   => rs'.Model.SelectionStart = 2 /\ rs'.Model.SelectionEnd = 5)]_vars

\* the selection is {5,5}, the state select(5) leaves, and shift-select(2) is
\* accepted and swaps
C7_Witness ==
    /\ rs.Model.SelectionStart = 5 /\ rs.Model.SelectionEnd = 5
    /\ Accepted(rs.Model, 2)
    /\ selectLine(rs.Model, 2, TRUE).SelectionStart = 2
    /\ selectLine(rs.Model, 2, TRUE).SelectionEnd = 5

IsBlank(text) == \A i \in 1..Len(text) : text[i] \in Spaces

\* C8: add-comment with empty or whitespace-only text, or with the selection
\* Empty, leaves the model as it is (comment list, selection, selected path
\* and all the rest) except for the validation message, which it sets to a
\* non-empty text.
C8_RejectedAddComment ==
    \A comment \in CommentInputs :
      IsBlank(comment) \/ SelEmpty(rs.Model) =>
        LET after == addComment(rs.Model, comment)
        IN  /\ after.Error # NoError
            /\ after = [rs.Model EXCEPT !.Error = after.Error]

\* a blank text was rejected while a range was selected and a comment existed
C8_Witness ==
    /\ rs.Model.Error = ErrTextRequired
    /\ rs.Model.SelectionStart = 2 /\ rs.Model.SelectionEnd = 5
    /\ Len(rs.Model.Comments) = 1

\* t is text without its leading and trailing white space
IsTrimOf(t, text) ==
    /\ t # <<>> /\ t[1] \notin Spaces /\ t[Len(t)] \notin Spaces
    /\ \E i \in 0..Len(text), j \in 0..Len(text) :
         /\ i + j <= Len(text)
         /\ t = SubSeq(text, i + 1, Len(text) - j)
         /\ \A k \in 1..i : text[k] \in Spaces
         /\ \A k \in (Len(text) - j + 1)..Len(text) : text[k] \in Spaces

\* C9: add-comment with non-blank text while the selection is {s,e} appends
\* exactly one comment {SelectedPath, s, e, trimmed text} at the end of the
\* list and leaves the selection Empty and the validation message cleared.
C9_AcceptedAddComment ==
    \A comment \in CommentInputs :
      ~IsBlank(comment) /\ ~SelEmpty(rs.Model) =>
        LET after == addComment(rs.Model, comment)
            n == Len(rs.Model.Comments)
        IN  /\ Len(after.Comments) = n + 1
            /\ SubSeq(after.Comments, 1, n) = rs.Model.Comments
            /\ after.Comments[n + 1].Path = rs.Model.SelectedPath
            /\ after.Comments[n + 1].StartLine = rs.Model.SelectionStart
            /\ after.Comments[n + 1].EndLine = rs.Model.SelectionEnd
            /\ IsTrimOf(after.Comments[n + 1].Text, comment)
            /\ SelEmpty(after)
            /\ after.Error = NoError
            /\ after.SelectedPath = rs.Model.SelectedPath

\* a second, different comment was appended after a first one
C9_Witness ==
    /\ Len(rs.Model.Comments) = 2
    /\ rs.Model.Comments[1] # rs.Model.Comments[2]
    /\ rs.Model.Comments[2] =
          [Path |-> rs.Model.SelectedPath, StartLine |-> 2, EndLine |-> 5,
           Text |-> <<"h", "i">>]
    /\ SelEmpty(rs.Model) /\ rs.Model.Error = NoError

IsPrefix(s, t) == Len(s) <= Len(t) /\ SubSeq(t, 1, Len(s)) = s

\* C10: over every step the comment list is a prefix of the list after the
\* step (so the list of any earlier state is a prefix of every later one),
\* and a step lengthens the list only if it is an add-comment with non-blank
\* text on a non-empty selection.
C10_CommentsAppendOnly ==
    [][/\ IsPrefix(rs.Model.Comments, rs'.Model.Comments)
       /\ Len(rs'.Model.Comments) > Len(rs.Model.Comments) =>
            /\ ~SelEmpty(rs.Model)
            /\ \E comment \in CommentInputs :
                 ~IsBlank(comment) /\ rs'.Model = addComment(rs.Model, comment)]_vars

\* two comments are kept while later events select another file and a line
C10_Witness ==
    /\ Len(rs.Model.Comments) = 2
    /\ rs.Model.SelectedPath # rs.Model.Comments[2].Path
    /\ ~SelEmpty(rs.Model)
    /\ rs.Done

\* C11: in every state each comment of the list has a non-empty text without
\* leading or trailing white space and a span with 1 <= StartLine <= EndLine.
C11_CommentsWellFormed ==
    \A i \in 1..Len(rs.Model.Comments) :
      LET c == rs.Model.Comments[i]
      IN  /\ c.Text # <<>>
          /\ c.Text[1] \notin Spaces
          /\ c.Text[Len(c.Text)] \notin Spaces
          /\ 1 <= c.StartLine
          /\ c.StartLine <= c.EndLine

\* a comment on a range of several lines, made from a text typed with blanks
\* around it
C11_Witness ==
    \E i \in 1..Len(rs.Model.Comments) :
      /\ rs.Model.Comments[i].Text = <<"h", "i">>
      /\ rs.Model.Comments[i].StartLine = 2
      /\ rs.Model.Comments[i].EndLine = 5
      /\ rs.Model.Mode = ModeFile

\* C12: a select-line, plain or shift, on a line that is <= 0 or, in diff
\* mode, is not the new-side number of a line of the selected diff file that
\* is not deleted, leaves the whole model (selection, comments, validation
\* message, view) as it is.
C12_RejectedSelectLine ==
    \A line \in LineInputs, shift \in BOOLEAN :
      ~Accepted(rs.Model, line) => selectLine(rs.Model, line, shift) = rs.Model

\* in diff mode, with a line selected and a validation message showing, line 2
\* is no line of the selected file
C12_Witness ==
    /\ rs.Model.Mode = ModeDiff
    /\ rs.Model.SelectionStart = 5
    /\ rs.Model.Error # NoError
    /\ ~Accepted(rs.Model, 2)
    /\ selectLine(rs.Model, 2, TRUE) = rs.Model

(***************************************************************************)
(* Claims about the view projection, checked on the views the projector    *)
(* builds from the diff files, files and comments of every session state.  *)
(***************************************************************************)
\* the largest line number a selection is tried with
MaxLine == 6

\* the selections a session can hold: Empty, or 1 <= start <= end
Selections ==
    {<<0, 0>>} \cup {se \in (1..MaxLine) \X (1..MaxLine) : se[1] <= se[2]}

\* C13: in the view buildViewDiff makes of a diff file, a line is selected
\* exactly when its NewLine > 0, its kind is not delete, the selection is not
\* Empty and start <= NewLine <= end; a delete line is selected for no pair
\* of selection bounds at all.
C13_DiffSelected ==
    \A f \in 1..Len(rs.Model.DiffFiles) :
      LET file == rs.Model.DiffFiles[f]
      IN  /\ \A se \in Selections :
               LET view == buildViewDiff(file, rs.Model.Comments, se[1], se[2],
                                         rs.Model.RenderFile)
               IN  /\ Len(view.Hunks) = Len(file.Hunks)
                   /\ \A j \in 1..Len(file.Hunks) :
                        /\ Len(view.Hunks[j].Lines) = Len(file.Hunks[j].Lines)
                        /\ \A k \in 1..Len(file.Hunks[j].Lines) :
                             LET dl == file.Hunks[j].Lines[k]
                             IN  view.Hunks[j].Lines[k].Selected
                                   <=> /\ dl.NewLine > 0
                                       /\ dl.Kind # DiffDel
                                       /\ se # <<0, 0>>
                                       /\ se[1] <= dl.NewLine
                                       /\ dl.NewLine <= se[2]
          /\ \A start \in -1..MaxLine, end \in -1..MaxLine :
               LET view == buildViewDiff(file, rs.Model.Comments, start, end,
                                         rs.Model.RenderFile)
               IN  \A j \in 1..Len(file.Hunks) :
                     \A k \in 1..Len(file.Hunks[j].Lines) :
                       file.Hunks[j].Lines[k].Kind = DiffDel
                         => ~view.Hunks[j].Lines[k].Selected

\* the stored diff view shows a selected added line, an unselected line with
\* a new-side number and a deleted line
C13_Witness ==
    /\ rs.Model.Mode = ModeDiff
    /\ rs.Model.SelectionStart = 5 /\ rs.Model.SelectionEnd = 5
    /\ rs.Model.ViewDiff =
         buildViewDiff(rs.Model.DiffFiles[1], rs.Model.Comments, 5, 5, rs.Model.RenderFile)
    /\ \E j \in 1..Len(rs.Model.ViewDiff.Hunks) :
         \E k \in 1..Len(rs.Model.ViewDiff.Hunks[j].Lines) :
           LET vl == rs.Model.ViewDiff.Hunks[j].Lines[k]
           IN  vl.Selected /\ vl.Kind = DiffAdd /\ vl.NewLine = 5
    /\ \E k \in 1..Len(rs.Model.ViewDiff.Hunks[1].Lines) :
         LET vl == rs.Model.ViewDiff.Hunks[1].Lines[k]
         IN  ~vl.Selected /\ vl.NewLine = 2
    /\ \E k \in 1..Len(rs.Model.ViewDiff.Hunks[1].Lines) :
         LET vl == rs.Model.ViewDiff.Hunks[1].Lines[k]
         IN  ~vl.Selected /\ vl.Kind = DiffDel

\* the comments of a view line, without their rendering
CommentsOf(viewComments) == [i \in 1..Len(viewComments) |-> viewComments[i].Comment]

\* C14: in the view buildViewDiff makes of a diff file, a line with
\* NewLine = 0 is not commented and carries no comments; a line with
\* NewLine > 0 is commented exactly when a comment on the file's path has
\* StartLine <= NewLine <= EndLine, and carries exactly the comments on that
\* path whose StartLine is its NewLine, in the order of the comment list.
C14_DiffCommented ==
    \A f \in 1..Len(rs.Model.DiffFiles) :
      LET file == rs.Model.DiffFiles[f]
          comments == rs.Model.Comments
          view == buildViewDiff(file, comments, rs.Model.SelectionStart,
                                rs.Model.SelectionEnd, rs.Model.RenderFile)
      IN  \A j \in 1..Len(file.Hunks) :
            \A k \in 1..Len(file.Hunks[j].Lines) :
              LET dl == file.Hunks[j].Lines[k]
                  vl == view.Hunks[j].Lines[k]
              IN  /\ dl.Kind = DiffDel => dl.NewLine = 0
                  /\ dl.NewLine = 0 => ~vl.Commented /\ vl.Comments = <<>>
                  /\ dl.NewLine > 0 =>
                       /\ vl.Commented <=>
                            \E i \in 1..Len(comments) :
                              /\ comments[i].Path = file.Path
                              /\ comments[i].StartLine <= dl.NewLine
                              /\ dl.NewLine <= comments[i].EndLine
                       /\ CommentsOf(vl.Comments) =
                            SelectSeq(comments,
                                      LAMBDA c : c.Path = file.Path
                                                 /\ c.StartLine = dl.NewLine)

\* the stored diff view carries two comments on one line in creation order,
\* has a commented line without a comment of its own and a deleted line
C14_Witness ==
    /\ rs.Model.Mode = ModeDiff
    /\ Len(rs.Model.Comments) = 2
    /\ rs.Model.Comments[1] # rs.Model.Comments[2]
    /\ \E k \in 1..Len(rs.Model.ViewDiff.Hunks[1].Lines) :
         LET vl == rs.Model.ViewDiff.Hunks[1].Lines[k]
         IN  vl.NewLine = 2 /\ vl.Commented /\ CommentsOf(vl.Comments) = rs.Model.Comments
    /\ \E k \in 1..Len(rs.Model.ViewDiff.Hunks[1].Lines) :
         LET vl == rs.Model.ViewDiff.Hunks[1].Lines[k]
         IN  vl.NewLine = 3 /\ vl.Commented /\ vl.Comments = <<>>
    /\ \E k \in 1..Len(rs.Model.ViewDiff.Hunks[1].Lines) :
         LET vl == rs.Model.ViewDiff.Hunks[1].Lines[k]
         IN  vl.Kind = DiffDel /\ vl.NewLine = 0 /\ ~vl.Commented /\ vl.Comments = <<>>

\* the view lines updateFileView shows for a file of the model
FileViewLines(file) ==
    buildViewLinesWithRanges(file, rs.Model.Comments, rs.Model.SelectionStart,
                             rs.Model.SelectionEnd,
                             IF rs.Model.RenderFile THEN RenderLines(file.Lines) ELSE <<>>,
                             MapGet(rs.Model.Ranges, file.Path, <<>>))

\* C15: in the file view a line numbered n is commented exactly when a
\* comment with the file's path has StartLine <= n <= EndLine, a comment is
\* attached only to the view line whose number is its StartLine, and the
\* comments of other paths change nothing in the view.
C15_FileCommented ==
    \A f \in 1..Len(rs.Model.Files) :
      LET file == rs.Model.Files[f]
          comments == rs.Model.Comments
          view == FileViewLines(file)
      IN  /\ \A k \in 1..Len(view) :
               LET vl == view[k]
               IN  /\ vl.Commented <=>
                        \E i \in 1..Len(comments) :
                          /\ comments[i].Path = file.Path
                          /\ comments[i].StartLine <= vl.Number
                          /\ vl.Number <= comments[i].EndLine
                   /\ CommentsOf(vl.Comments) =
                        SelectSeq(comments,
                                  LAMBDA c : c.Path = file.Path
                                             /\ c.StartLine = vl.Number)
          /\ view = buildViewLinesWithRanges(file,
                       SelectSeq(comments, LAMBDA c : c.Path = file.Path),
                       rs.Model.SelectionStart, rs.Model.SelectionEnd,
                       IF rs.Model.RenderFile THEN RenderLines(file.Lines) ELSE <<>>,
                       MapGet(rs.Model.Ranges, file.Path, <<>>))

\* the stored file view has a comment on lines 2 to 5 attached to line 2
\* only, line 3 commented without it, line 1 free, and a comment on the
\* other file that does not show
C15_Witness ==
    /\ rs.Model.Mode = ModeFile
    /\ Len(rs.Model.Comments) = 2
    /\ rs.Model.Comments[1].Path # rs.Model.Comments[2].Path
    /\ Len(rs.Model.ViewFile.Lines) = 4
    /\ ~rs.Model.ViewFile.Lines[1].Commented
    /\ rs.Model.ViewFile.Lines[2].Commented
    /\ Len(rs.Model.ViewFile.Lines[2].Comments) = 1
    /\ rs.Model.ViewFile.Lines[2].Comments[1].Comment.EndLine = 5
    /\ rs.Model.ViewFile.Lines[3].Commented
    /\ rs.Model.ViewFile.Lines[3].Comments = <<>>

(***************************************************************************)
(* Claims about normalizeRanges, checked under SpecNormalize.              *)
(***************************************************************************)
\* every range is positive and ordered, and each range starts after the
\* line that follows the end of the range before it
Canonical(ranges) ==
    /\ \A i \in 1..Len(ranges) :
         1 <= ranges[i].Start /\ ranges[i].Start <= ranges[i].End
    /\ \A i \in 1..(Len(ranges) - 1) :
         /\ ranges[i].Start < ranges[i + 1].Start
         /\ ranges[i].End < ranges[i + 1].Start - 1

\* C16: for every input list normalizeRanges returns a list of ranges with
\* 1 <= start <= end, sorted by start, each range starting strictly after
\* the end + 1 of the range before it; <<5-10, 9-15, 20-22>> becomes
\* <<5-15, 20-22>>.
C16_NormalizeCanonical ==
    called =>
      /\ Canonical(output)
      /\ input = MergeExample => output = <<LR(5, 15), LR(20, 22)>>

\* C17: normalizeRanges applied to its own result returns that result, and
\* a list that is already positive, sorted, non-overlapping and non-touching
\* is returned as it is.
C17_NormalizeIdempotent ==
    called =>
      /\ normalizeRanges(output) = output
      /\ Canonical(input) => output = input

\* a canonical list of two ranges was normalised
C17_Witness ==
    /\ called
    /\ input = <<LR(1, 1), LR(3, 5)>>
    /\ output = input

\* line n lies in a range of the list that has two positive bounds, taken
\* with its bounds in order
CoversLine(ranges, n) ==
    \E i \in 1..Len(ranges) :
      /\ ranges[i].Start > 0 /\ ranges[i].End > 0
      /\ Min(ranges[i].Start, ranges[i].End) <= n
      /\ n <= Max(ranges[i].Start, ranges[i].End)

\* the bounds that occur in a list of ranges
BoundsOf(ranges) ==
    {ranges[i].Start : i \in 1..Len(ranges)} \cup {ranges[i].End : i \in 1..Len(ranges)}

\* every bound of the list with its two neighbours: two unions of ranges
\* with bounds among these cover the same lines when they agree on them
ProbeLines(ranges) ==
    UNION {{e - 1, e} : e \in BoundsOf(ranges)}
      \cup {e + 1 : e \in BoundsOf(ranges) \ {MaxInt}}

\* C37: the result of normalizeRanges covers exactly the lines that the
\* ranges of the input with two positive bounds cover, inverted ranges
\* taken with their bounds swapped.
C37_CoveragePreserved ==
    called =>
      /\ \A n \in ProbeLines(input) : CoversLine(output, n) <=> CoversLine(input, n)
      /\ \A i \in 1..Len(output) :
           /\ {output[i].Start, output[i].End} \subseteq BoundsOf(input)
           /\ 0 < output[i].Start /\ output[i].Start <= output[i].End

\* an inverted range overlapping a second one, and one with a bound 0
C37_Witness ==
    /\ called
    /\ \E i \in 1..Len(input) : input[i] = LR(5, 2)
    /\ \E i \in 1..Len(input) : input[i] = LR(3, MaxInt)
    /\ output = <<LR(2, MaxInt)>>

(***************************************************************************)
(* Claims about ParseRangeFlag, checked under SpecRangeFlag.               *)
(***************************************************************************)
\* the non-blank values of the input, trimmed, in the order given
GivenFlags ==
    SelectSeq([i \in 1..Len(input) |-> TrimSpace(input[i])], LAMBDA v : v # <<>>)

\* a number as it is written in a value
Numeral(n) == IF n < 0 THEN <<"-">> \o Itoa(-n) ELSE Itoa(n)

\* the paths and numbers the values are written with
WrittenFlags == [path : {PathAGo, <<"b", ".", "g", "o">>, <<>>},
                 from : {-5, 0, 1, 2, 3, 5, 8, 10, 20, 25, 30},
                 to   : {-5, 0, 1, 2, 3, 5, 8, 10, 20, 25, 30}]

FlagText(w) == w.path \o <<":">> \o Numeral(w.from) \o <<"-">> \o Numeral(w.to)

IsWritten(v) == \E w \in WrittenFlags : FlagText(w) = v

Written(v) == CHOOSE w \in WrittenFlags : FlagText(w) = v

\* the range a written value stands for, endpoints in ascending order
SwappedRange(w) == LR(Min(w.from, w.to), Max(w.from, w.to))

\* C18: when ParseRangeFlag returns no error, its map has exactly the paths
\* of the values given, and the ranges of a path are those of its values in
\* the order given, each with its endpoints in ascending order; "a.go:30-25"
\* yields a.go with the range 25-30.
C18_RangesGroupedInOrder ==
    called /\ ~output.err =>
      /\ \A i \in 1..Len(GivenFlags) : IsWritten(GivenFlags[i])
      /\ DOMAIN output.ranges =
            {Written(GivenFlags[i]).path : i \in 1..Len(GivenFlags)}
      /\ \A p \in DOMAIN output.ranges :
           LET ofPath == SelectSeq(GivenFlags, LAMBDA v : Written(v).path = p)
           IN  output.ranges[p] =
                 [k \in 1..Len(ofPath) |-> SwappedRange(Written(ofPath[k]))]
      /\ input = <<FlagA3025>> =>
           /\ DOMAIN output.ranges = {PathAGo}
           /\ output.ranges[PathAGo] = <<LR(25, 30)>>

\* the values of TestParseRangeFlag were parsed: two ranges for a.go, the
\* second one swapped, and one for b.go
C18_Witness ==
    /\ called /\ ~output.err
    /\ input = FlagExample
    /\ Len(output.ranges[PathAGo]) = 2
    /\ output.ranges[PathAGo][2] = LR(25, 30)
    /\ Cardinality(DOMAIN output.ranges) = 2

\* a positive integer in decimal digits
IsPositiveInteger(s) ==
    /\ s # <<>>
    /\ \A i \in 1..Len(s) : s[i] \in Digits
    /\ \E i \in 1..Len(s) : s[i] # "0"

\* v has no ":", no "-" after the ":", or an endpoint that is no positive
\* integer
MalformedFlag(v) ==
    \/ \A i \in 1..Len(v) : v[i] # ":"
    \/ LET c == CHOOSE i \in 1..Len(v) : v[i] = ":" /\ \A j \in 1..(i - 1) : v[j] # ":"
           r == SubSeq(v, c + 1, Len(v))
       IN  \/ \A i \in 1..Len(r) : r[i] # "-"
           \/ LET d == CHOOSE i \in 1..Len(r) :
                         r[i] = "-" /\ \A j \in 1..(i - 1) : r[j] # "-"
              IN  \/ ~IsPositiveInteger(SubSeq(r, 1, d - 1))
                  \/ ~IsPositiveInteger(SubSeq(r, d + 1, Len(r)))

\* C19: ParseRangeFlag returns an error and no map whenever a non-blank
\* value has no ":", no "-" after the ":" or an endpoint that is not a
\* positive integer, and every range it returns has 1 <= start <= end.
C19_MalformedRangeRejected ==
    called =>
      /\ (\E i \in 1..Len(GivenFlags) : MalformedFlag(GivenFlags[i]))
           => output.err /\ output.nil
      /\ \A p \in DOMAIN output.ranges :
           \A k \in 1..Len(output.ranges[p]) :
             1 <= output.ranges[p][k].Start
               /\ output.ranges[p][k].Start <= output.ranges[p][k].End

\* C20: cancel-comment, from any state, leaves the selection Empty and the
\* validation message cleared, and leaves the comment list as it was.
C20_CancelComment ==
    /\ SelEmpty(cancelComment(rs.Model))
    /\ cancelComment(rs.Model).Error = NoError
    /\ cancelComment(rs.Model).Comments = rs.Model.Comments

\* a range is selected, a validation message shows and a comment exists:
\* cancel-comment drops the first two and keeps the third
C20_Witness ==
    /\ rs.Model.SelectionStart = 2 /\ rs.Model.SelectionEnd = 5
    /\ rs.Model.Error = ErrTextRequired
    /\ Len(rs.Model.Comments) = 1
    /\ cancelComment(rs.Model) # rs.Model
    /\ SelEmpty(cancelComment(rs.Model))
    /\ cancelComment(rs.Model).Comments = rs.Model.Comments

\* C21: an accepted select-line on line L that is a plain click, or a
\* shift-click while the selection is Empty, leaves the selection {L,L}
\* whatever the selection was.
C21_PlainSelectLine ==
    \A L \in LineInputs, shift \in BOOLEAN :
      Accepted(rs.Model, L) /\ (~shift \/ SelEmpty(rs.Model)) =>
        /\ selectLine(rs.Model, L, shift).SelectionStart = L
        /\ selectLine(rs.Model, L, shift).SelectionEnd = L

\* a range is selected and a plain click on its last line is accepted, in
\* diff mode
C21_Witness ==
    /\ rs.Model.Mode = ModeDiff
    /\ rs.Model.SelectionStart = 2 /\ rs.Model.SelectionEnd = 5
    /\ Accepted(rs.Model, 5)
    /\ selectLine(rs.Model, 5, FALSE).SelectionStart = 5
    /\ selectLine(rs.Model, 5, FALSE).SelectionEnd = 5

(***************************************************************************)
(* Claims about the lines of the file view, checked under SpecFileLines.   *)
(***************************************************************************)
\* the line numbers of the file that a range with two positive bounds covers
CoveredLines(file, ranges) ==
    {n \in 1..Len(file.Lines) :
        \E i \in 1..Len(ranges) :
          /\ ranges[i].Start > 0 /\ ranges[i].End > 0
          /\ Min(ranges[i].Start, ranges[i].End) <= n
          /\ n <= Max(ranges[i].Start, ranges[i].End)}

\* C22: with display ranges, the view lines are the file lines whose number
\* lies in a valid range and in 1..lineCount, each once, in ascending
\* order; without ranges the view has every file line once, in order.
C22_RangeViewLines ==
    called =>
      /\ \A k \in 1..Len(output) :
           /\ output[k].Number \in 1..Len(input.file.Lines)
           /\ output[k].Text = input.file.Lines[output[k].Number]
      /\ \A k \in 1..(Len(output) - 1) : output[k].Number < output[k + 1].Number
      /\ {output[k].Number : k \in 1..Len(output)} =
            IF input.ranges = <<>> THEN 1..Len(input.file.Lines)
            ELSE CoveredLines(input.file, input.ranges)

(***************************************************************************)
(* Claims about the files of a parsed diff, checked under SpecParse.       *)
(***************************************************************************)
\* C23: every DiffFile of the result has Path = NewPath when NewPath is not
\* empty and Path = OldPath otherwise, whatever header lines the input has
\* and in whatever order.
C23_PathPicked ==
    called =>
      \A i \in 1..Len(output.files) :
        output.files[i].Path = pickDiffPath(output.files[i].OldPath, output.files[i].NewPath)

\* C24: a diff of k file blocks, each starting at a "diff --git" line or,
\* without one, at its "---"/"+++" pair, yields k DiffFiles in input
\* order, and each file has the hunks of its own block.
C24_OneFilePerBlock ==
    called =>
      \A bs \in BlockSeqs :
        input = BlockText(bs) =>
          /\ ~output.err
          /\ Len(output.files) = Len(bs)
          /\ \A i \in 1..Len(output.files) :
               output.files[i] = parseUnifiedDiff(BlockText(<<bs[i]>>)).files[1]

(***************************************************************************)
(* Claims about markdown files, checked under SpecMarkdown.                *)
(***************************************************************************)
\* the markdown files of the session
MarkdownPaths(model) ==
    {model.Files[i].Path : i \in {k \in 1..Len(model.Files) : isMarkdownPath(model.Files[k].Path)}}

\* the mode of a markdown path: rendered unless the map says otherwise
ModeOf(model, path) == MapGet(model.MarkdownRenderByPath, path, TRUE)

\* C25: in file mode the rendered/code mode of a markdown path P is kept
\* per path: a step changes the mode of P only if it is toggle-file-render
\* with P selected, that event flips the mode of P and of no other path,
\* and whenever P is the selected file the view shows P in its mode.
C25_ModeKeptPerPath ==
    [][\E toggled \in {toggleFileRender(rs.Model)} :
       \A P \in MarkdownPaths(rs.Model) :
         /\ ModeOf(rs'.Model, P) # ModeOf(rs.Model, P) =>
              /\ rs.Model.SelectedPath = P
              /\ rs'.Model = toggled
         /\ ModeOf(toggled, P) # ModeOf(rs.Model, P) <=> rs.Model.SelectedPath = P
         /\ rs'.Model.SelectedPath = P =>
              rs'.Model.ViewFile.MarkdownRendered = ModeOf(rs'.Model, P)]_vars

\* r.md was toggled to code mode, n.Markdown is on screen; selecting r.md
\* again shows it in code mode
C25_Witness ==
    /\ rs.Model.Mode = ModeFile
    /\ rs.Model.SelectedPath = PathNMarkdown
    /\ rs.Model.ViewFile.MarkdownRendered
    /\ ~ModeOf(rs.Model, PathRMd)
    /\ ~selectFile(rs.Model, PathRMd).ViewFile.MarkdownRendered
    /\ selectFile(rs.Model, PathRMd).SelectedPath = PathRMd

\* C26: a markdown file shown for the first time in the session is shown
\* in rendered mode, without code lines, also right after a file shown in
\* code mode.
C26_FirstShownRendered ==
    rs.Model.Mode = ModeFile =>
      \A Q \in MarkdownPaths(rs.Model) :
        Q \notin DOMAIN rs.Model.MarkdownRenderByPath =>
          /\ selectFile(rs.Model, Q).ViewFile.Path = Q
          /\ selectFile(rs.Model, Q).ViewFile.MarkdownFile
          /\ selectFile(rs.Model, Q).ViewFile.MarkdownRendered
          /\ selectFile(rs.Model, Q).ViewFile.Lines = <<>>

\* r.md is on screen in code mode and n.Markdown was never shown
C26_Witness ==
    /\ rs.Model.Mode = ModeFile
    /\ rs.Model.SelectedPath = PathRMd
    /\ rs.Model.ViewFile.MarkdownFile /\ ~rs.Model.ViewFile.MarkdownRendered
    /\ rs.Model.ViewFile.Lines # <<>>
    /\ PathNMarkdown \notin DOMAIN rs.Model.MarkdownRenderByPath
    /\ selectFile(rs.Model, PathNMarkdown).ViewFile.MarkdownRendered

\* the selected markdown file is the one on screen, in code mode
OnScreenInCodeMode(model) ==
    /\ model.Mode = ModeFile
    /\ model.SelectedPath \in MarkdownPaths(model)
    /\ model.ViewFile.Path = model.SelectedPath
    /\ ~model.ViewFile.MarkdownRendered

AllIdle == \A s \in Sockets : input[s].pc \in {"new", "idle"}

\* C28: events are handled one at a time: once the handlers have returned,
\* the list has exactly one comment for each accepted add-comment event,
\* and the selection a handler read for its comment is whole, a start and
\* an end that one select-line event set (0 < start <= end).
C28_HandlersSerialized ==
    /\ AllIdle => Len(rs.Model.Comments) = output
    /\ \A s \in Sockets :
         input[s].pc = "append" => 0 < input[s].start /\ input[s].start <= input[s].end

\* what the handlers of socket s read: selection, path, flags and comments
SocketView(s) ==
    [SelectionStart |-> SocketModel(s).SelectionStart,
     SelectionEnd |-> SocketModel(s).SelectionEnd,
     SelectedPath |-> SocketModel(s).SelectedPath,
     RenderFile |-> SocketModel(s).RenderFile,
     RenderComments |-> SocketModel(s).RenderComments,
     Comments |-> SocketModel(s).Comments]

\* C29: every socket owns its state: a step of a handler of one socket
\* leaves unchanged what the handlers of any other socket read.
C29_SocketOwnsState ==
    [][\A s \in Sockets, t \in Sockets :
         (s # t /\ input'[t] # input[t] /\ input'[s] = input[s]) =>
            SocketView(s)' = SocketView(s)]_vars

(***************************************************************************)
(* Claims about the end of the session, checked under SpecRunFair.         *)
(***************************************************************************)
\* C30: Run writes the comment list at most once and only after a finish
\* event was handled; no finish event panics; what is written is the
\* comment list in the order of creation; and once a finish event is
\* handled Run eventually has stopped the server, written the list once
\* and returned.
C30_EmitOnceAfterFinish ==
    /\ [](/\ Len(output) <= 1
          /\ input # "panic"
          /\ input # "serving" => rs.Done /\ called
          /\ output # <<>> => /\ input \in {"emitted", "returned"}
                              /\ IsPrefix(output[1].comments, rs.Model.Comments))
    /\ [][output' # output => rs.Done /\ output' = <<emitToon(rs.Model.Comments)>>]_vars
    /\ rs.Done ~> (input = "returned" /\ Len(output) = 1)

\* Run has returned after writing two comments in the order they were added
C30_Witness ==
    /\ input = "returned" /\ rs.Done /\ called
    /\ Len(rs.Model.Comments) = 2
    /\ rs.Model.Comments[1].StartLine # rs.Model.Comments[2].StartLine
    /\ output = <<emitToon(rs.Model.Comments)>>

(***************************************************************************)
(* Claims about the lines of a hunk, checked under SpecParse.              *)
(***************************************************************************)
\* the lines of the hunk that is open in the parser state st
OpenLines(st) == st.curFile.Hunks[Len(st.curFile.Hunks)].Lines

\* C32: inside an open hunk every line that starts with "-" becomes a delete
\* line at the old cursor, which then advances, and every line that starts
\* with "+" becomes an add line at the new cursor, which then advances, also
\* when the line starts with "--- " or "+++ ".
C32_FirstCharDecides ==
    called =>
      \A i \in 1..Len(InputLines) :
      \A before \in {parseLines(ParseStart, SubSeq(InputLines, 1, i - 1), 1)} :
        (~before.err /\ before.hasHunk /\ InputLines[i] # <<>>
           /\ InputLines[i][1] \in {"-", "+"}) =>
          \A after \in {parseLine(before, InputLines[i])} :
            /\ after.hasHunk
            /\ OpenLines(after) =
                 Append(OpenLines(before),
                        IF InputLines[i][1] = "-"
                        THEN [Kind |-> DiffDel, OldLine |-> before.oldLine, NewLine |-> 0,
                              Text |-> Tail(InputLines[i])]
                        ELSE [Kind |-> DiffAdd, OldLine |-> 0, NewLine |-> before.newLine,
                              Text |-> Tail(InputLines[i])])
            /\ after.oldLine = before.oldLine + (IF InputLines[i][1] = "-" THEN 1 ELSE 0)
            /\ after.newLine = before.newLine + (IF InputLines[i][1] = "+" THEN 1 ELSE 0)
\* the lines of a text as git writes them: the text without the empty
\* segment that follows its final newline
WrittenLines == SubSeq(InputLines, 1, Len(InputLines) - 1)

\* lines i.. of a well-formed diff, with old and new the numbers of old-side
\* and new-side lines the open hunk still has to bring
RECURSIVE WellFormedFrom(_, _, _, _)
WellFormedFrom(lines, i, old, new) ==
    IF i > Len(lines) THEN old = 0 /\ new = 0
    ELSE IF old = 0 /\ new = 0
    THEN IF HasPrefix(lines[i], <<"@", "@", " ">>)
         THEN /\ hunkHeaderRE(lines[i]).ok
              /\ WellFormedFrom(lines, i + 1, parseOptionalCount(hunkHeaderRE(lines[i]).m2),
                                parseOptionalCount(hunkHeaderRE(lines[i]).m4))
         ELSE /\ \/ HasPrefix(lines[i], <<"d", "i", "f", "f", " ", "-", "-", "g", "i", "t", " ">>)
                 \/ HasPrefix(lines[i], <<"-", "-", "-", " ">>)
                 \/ HasPrefix(lines[i], <<"+", "+", "+", " ">>)
              /\ WellFormedFrom(lines, i + 1, 0, 0)
    ELSE IF HasPrefix(lines[i], NoNewlineMarker) THEN WellFormedFrom(lines, i + 1, old, new)
    ELSE IF lines[i] = <<>> THEN FALSE
    ELSE CASE lines[i][1] = " " ->
                old > 0 /\ new > 0 /\ WellFormedFrom(lines, i + 1, old - 1, new - 1)
           [] lines[i][1] = "-" -> old > 0 /\ WellFormedFrom(lines, i + 1, old - 1, new)
           [] lines[i][1] = "+" -> new > 0 /\ WellFormedFrom(lines, i + 1, old, new - 1)
           [] OTHER -> FALSE

\* the text ends with a newline and every hunk body has the declared lines
WellFormedInput == EndsWithNewline /\ WellFormedFrom(WrittenLines, 1, 0, 0)

\* C33: for well-formed input every parsed hunk has exactly OldCount
\* context and delete lines and exactly NewCount context and add lines.
C33_DeclaredCounts ==
    (called /\ WellFormedInput) =>
      /\ ~output.err
      /\ \A ij \in AllHunks :
           /\ OldBefore(HunkAt(ij).Lines, Len(HunkAt(ij).Lines)) = HunkAt(ij).OldCount
           /\ NewBefore(HunkAt(ij).Lines, Len(HunkAt(ij).Lines)) = HunkAt(ij).NewCount

(***************************************************************************)
(* Claims about the whole session, checked under Spec.                     *)
(***************************************************************************)
\* the new-side numbers of the lines, deleted ones left out, of the first
\* diff file with the path
NewSideNumbers(files, path) ==
    UNION {UNION {{files[i].Hunks[j].Lines[k].NewLine :
                     k \in {n \in 1..Len(files[i].Hunks[j].Lines) :
                              files[i].Hunks[j].Lines[n].Kind # DiffDel}} :
                  j \in 1..Len(files[i].Hunks)} :
           i \in {n \in 1..Len(files) : files[n].Path = path
                                        /\ \A b \in 1..(n - 1) : files[b].Path # path}}

\* C34: in diff mode both ends of a non-empty selection are new-side numbers
\* of lines, not deleted, of the diff file SelectedPath names, and both ends
\* of every comment are such numbers in the diff file the comment names.
C34_DiffSpansOnLines ==
    rs.Model.Mode = ModeDiff =>
      /\ ~SelEmpty(rs.Model) =>
           {rs.Model.SelectionStart, rs.Model.SelectionEnd}
              \subseteq NewSideNumbers(rs.Model.DiffFiles, rs.Model.SelectedPath)
      /\ \A n \in 1..Len(rs.Model.Comments) :
           {rs.Model.Comments[n].StartLine, rs.Model.Comments[n].EndLine}
              \subseteq NewSideNumbers(rs.Model.DiffFiles, rs.Model.Comments[n].Path)

\* a comment on lines 2 to 5 of g is kept while line 5 of h is selected
C34_Witness ==
    /\ rs.Model.Mode = ModeDiff
    /\ rs.Model.SelectedPath = PathH
    /\ rs.Model.SelectionStart = 5 /\ rs.Model.SelectionEnd = 5
    /\ \E n \in 1..Len(rs.Model.Comments) :
         /\ rs.Model.Comments[n].Path = PathG
         /\ rs.Model.Comments[n].StartLine = 2 /\ rs.Model.Comments[n].EndLine = 5
    /\ 2 \notin NewSideNumbers(rs.Model.DiffFiles, PathH)

\* number of lines of the loaded file with the path, 0 when there is none
LineCount(files, path) ==
    IF findFile(files, path) = 0 THEN 0 ELSE Len(files[findFile(files, path)].Lines)

\* C35: in file mode the end of a non-empty selection is at most the number
\* of lines of the selected file, and every comment ends at a line its file
\* has.
C35_FileSpansInFile ==
    rs.Model.Mode = ModeFile =>
      /\ ~SelEmpty(rs.Model) =>
           rs.Model.SelectionEnd <= LineCount(rs.Model.Files, rs.Model.SelectedPath)
      /\ \A n \in 1..Len(rs.Model.Comments) :
           rs.Model.Comments[n].EndLine
              <= LineCount(rs.Model.Files, rs.Model.Comments[n].Path)

\* the path names a loaded file, in diff mode a diff file
KnownPath(model, path) ==
    IF model.Mode = ModeDiff THEN \E i \in 1..Len(model.DiffFiles) : model.DiffFiles[i].Path = path
    ELSE \E i \in 1..Len(model.Files) : model.Files[i].Path = path

\* C36: SelectedPath and the path of every comment name a loaded file; a
\* select-file with an empty or unknown path changes nothing; one with a
\* known path makes it the SelectedPath, empties the selection, clears the
\* validation message and leaves the comment list as it is.
C36_SelectFile ==
    /\ KnownPath(rs.Model, rs.Model.SelectedPath)
    /\ \A n \in 1..Len(rs.Model.Comments) : KnownPath(rs.Model, rs.Model.Comments[n].Path)
    /\ \A path \in PathInputs :
       \A after \in {selectFile(rs.Model, path)} :
         IF path = <<>> \/ ~KnownPath(rs.Model, path)
         THEN after = rs.Model
         ELSE /\ after.SelectedPath = path
              /\ SelEmpty(after)
              /\ after.Error = NoError
              /\ after.Comments = rs.Model.Comments

\* a.go has a comment, a selection and a validation message when r.md is
\* selected
C36_Witness ==
    /\ rs.Model.Mode = ModeFile
    /\ rs.Model.SelectedPath = PathAGo
    /\ ~SelEmpty(rs.Model)
    /\ rs.Model.Error # NoError
    /\ rs.Model.Comments # <<>>
    /\ selectFile(rs.Model, PathRMd).SelectedPath = PathRMd
    /\ selectFile(rs.Model, <<"z", "z">>) = rs.Model

\* the models the handlers hand to updateView from the model m: the model
\* itself, another file selected, a line selected, a render flag flipped
HandedToUpdateView(m) ==
    {m, [m EXCEPT !.RenderFile = ~@], [m EXCEPT !.RenderComments = ~@]}
      \cup {[m EXCEPT !.SelectedPath = path, !.SelectionStart = 0, !.SelectionEnd = 0,
                      !.Error = NoError] : path \in {q \in PathInputs : KnownPath(m, q)}}
      \cup {[m EXCEPT !.SelectionStart = line, !.SelectionEnd = line, !.Error = NoError] :
              line \in {n \in LineInputs : n > 0}}

\* what a projection has to leave alone
Projected(m) ==
    [Files |-> m.Files, DiffFiles |-> m.DiffFiles, Comments |-> m.Comments,
     SelectionStart |-> m.SelectionStart, SelectionEnd |-> m.SelectionEnd,
     SelectedPath |-> m.SelectedPath, Mode |-> m.Mode, Ranges |-> m.Ranges,
     RenderFile |-> m.RenderFile, RenderComments |-> m.RenderComments,
     Rendered |-> [path \in PathInputs |-> ModeOf(m, path)]]

\* C38: updateView leaves the files, the diff files, the comment list, the
\* selection, the selected path and the render modes as they are, and a
\* second call on its result changes nothing at all.
C38_ProjectionPure ==
    \A m \in HandedToUpdateView(rs.Model) :
    \A view \in {updateView(m)} :
      /\ Projected(view) = Projected(m)
      /\ updateView(view) = view

\* the markdown file r.md is projected for the first time, with comments
\* and a selection in the model
C38_Witness ==
    /\ rs.Model.Mode = ModeFile
    /\ rs.Model.SelectedPath = PathAGo
    /\ rs.Model.Comments # <<>> /\ ~SelEmpty(rs.Model)
    /\ PathRMd \notin DOMAIN rs.Model.MarkdownRenderByPath
    /\ \E m \in HandedToUpdateView(rs.Model) :
         /\ m.SelectedPath = PathRMd
         /\ updateView(m).ViewFile # m.ViewFile
         /\ updateView(m).ViewFile.MarkdownRendered

\* C39: after every event the stored view, ViewFile in file mode and
\* ViewDiff in diff mode, and the label are the projection of the model as
\* it is now.
C39_ViewCurrent ==
    \A view \in {updateView(rs.Model)} :
      /\ rs.Model.Mode = ModeFile => rs.Model.ViewFile = view.ViewFile
      /\ rs.Model.Mode = ModeDiff => rs.Model.ViewDiff = view.ViewDiff
      /\ rs.Model.SelectedLabel = view.SelectedLabel

\* an add-comment was rejected, which returns without a projection, while
\* the view shows a selected line and a commented line
C39_Witness ==
    /\ rs.Model.Mode = ModeFile
    /\ rs.Model.Error = ErrTextRequired
    /\ \E k \in 1..Len(rs.Model.ViewFile.Lines) : rs.Model.ViewFile.Lines[k].Selected
    /\ \E k \in 1..Len(rs.Model.ViewFile.Lines) : rs.Model.ViewFile.Lines[k].Commented
    /\ rs.Model.ViewFile = updateView(rs.Model).ViewFile

(***************************************************************************)
(* Claims about comments in the diff view, checked under SpecOverlap.      *)
(***************************************************************************)
\* the places (hunk, line) of the diff view
ViewPlaces(view) ==
    UNION {{<<j, k>> : k \in 1..Len(view.Hunks[j].Lines)} : j \in 1..Len(view.Hunks)}

\* C40: in diff mode every comment on the selected file is displayed once
\* in the view: it is among the comments of exactly one view line of all
\* hunks, and that line has the comment's StartLine as NewLine.
C40_CommentShownOnce ==
    rs.Model.Mode = ModeDiff =>
      \A n \in 1..Len(rs.Model.Comments) :
        rs.Model.Comments[n].Path = rs.Model.ViewDiff.Path =>
          /\ \A jk \in ViewPlaces(rs.Model.ViewDiff) :
               (\E c \in 1..Len(rs.Model.ViewDiff.Hunks[jk[1]].Lines[jk[2]].Comments) :
                  rs.Model.ViewDiff.Hunks[jk[1]].Lines[jk[2]].Comments[c].Comment
                     = rs.Model.Comments[n])
               => rs.Model.ViewDiff.Hunks[jk[1]].Lines[jk[2]].NewLine
                     = rs.Model.Comments[n].StartLine
          /\ Cardinality({jk \in ViewPlaces(rs.Model.ViewDiff) :
               \E c \in 1..Len(rs.Model.ViewDiff.Hunks[jk[1]].Lines[jk[2]].Comments) :
                  rs.Model.ViewDiff.Hunks[jk[1]].Lines[jk[2]].Comments[c].Comment
                     = rs.Model.Comments[n]}) = 1

====
